---- MODULE Spec2Model ----
(***************************************************************************)
(* Session and matching engine of the attendance monitoring backend        *)
(* (backend/teacher/attendance_records.py).                                *)
(*                                                                         *)
(* The persistent store (Supabase) is modelled as two tables:              *)
(*   attendance_sessions : rows in insertion order, row id = position      *)
(*   attendance_records  : rows in insertion order                         *)
(* Time is counted in minutes; one Tick is five minutes long.              *)
(* An optional value (Python None) is <<>>, a present value v is <<v>>.    *)
(***************************************************************************)
EXTENDS Integers, Sequences, FiniteSets, TLC

VARIABLES
    now,                  \* datetime.now(), in minutes
    attendance_sessions,  \* table attendance_sessions
    timers,               \* the threading.Timer objects started by create_session
    attendance_records,   \* table attendance_records
    students,             \* table students: the registered student ids, in table order
    req,                  \* the /real-mark request each worker thread is running
    log,                  \* history: every per-face outcome returned by /real-mark
    calls,                \* history: number of /real-mark requests started
    faulted,              \* history: a store call of a /real-mark request has failed
    reply,                \* history: what the store answered to the insert of the last step
    attendance_cache,     \* the AttendanceEmbeddingCache instance
    embedding_cache,      \* the EmbeddingCache instance of the demo session
    lock,                 \* embedding_cache.lock: the thread that holds it, or 0
    callers,              \* the get_embeddings call each thread is running
    session_docs,         \* history: the session document each create_session returned
    model_manager,        \* class ModelManager and the constructor calls under way
    supervisor,           \* the ServerManager instance, its two threads and its children
    resp                  \* the response returned in the last step, if any

vars == <<now, attendance_sessions, timers, attendance_records, students, req, log, calls,
          faulted, reply, attendance_cache, embedding_cache, lock, callers, session_docs,
          model_manager, supervisor, resp>>

\* The state of the process outside the request handlers
procVars == <<model_manager, supervisor>>

cacheVars == <<attendance_cache, embedding_cache, lock, callers>>

markVars == <<attendance_records, students, req, log, calls, faulted, reply>>

(***************************************************************************)
(* Bounds of the model                                                     *)
(***************************************************************************)
MaxTicks == 5
MaxSessions == 1
MaxPairTicks == 1
MaxPairSessions == 2
NumWorkers == 2
MaxCalls == 2
MaxSeqCalls == 3
MaxSeqTicks == 1
MaxGetCalls == 2
MaxGetTicks == 2
MaxNewCalls == 5
max_restarts == 2
MaxChildren == 4
MaxRosterCalls == 2

Workers == 1..NumWorkers
Durations == {4, 5, 20, 120, 121}
Students == {"s1", "s2"}

\* The class a student is registered in (columns of table students)
StudentScope(student) ==
    IF student = "s1"
    THEN [department |-> "CS", year |-> "2", division |-> "A"]
    ELSE [department |-> "IT", year |-> "2", division |-> "A"]

\* The class a session is created for (department, year, division of the
\* request; an attribute left out is "")
ClassScope == [department |-> "CS", year |-> "2", division |-> ""]
Scopes == {ClassScope}
UnknownSession == 0

None == <<>>
Some(v) == <<v>>

\* A response: the handler, its HTTP code, its argument (the duration for
\* create_session, the session_id for end_session and get_session_status,
\* the session row for /real-mark), the status and remaining_minutes that
\* get_session_status reports, and the per-face results of /real-mark.
NoResp ==
    [op |-> "none", code |-> 0, arg |-> 0, status |-> "", remaining |-> 0, results |-> <<>>]

Response(op, code, arg, status, remaining) ==
    [op |-> op, code |-> code, arg |-> arg, status |-> status, remaining |-> remaining,
     results |-> <<>>]

MarkResponse(code, session, results) ==
    [op |-> "mark", code |-> code, arg |-> session, status |-> "", remaining |-> 0,
     results |-> results]

Max(a, b) == IF a >= b THEN a ELSE b

(***************************************************************************)
(* Store primitives on attendance_sessions                                 *)
(***************************************************************************)

\* Mutant: the filter on the session is missing
SelectSessionsAll(sid) == attendance_sessions

\* .select('*').eq('session_id', sid): the matching rows, in table order
SelectSessions(sid) ==
    SelectSeq(attendance_sessions, LAMBDA row: row.session_id = sid)

\* .update(fields).eq('session_id', sid): every matching row is rewritten
UpdateSessions(sid, fields) ==
    [i \in DOMAIN attendance_sessions |->
        IF attendance_sessions[i].session_id = sid
        THEN [c \in DOMAIN attendance_sessions[i] |->
                 IF c \in DOMAIN fields THEN fields[c] ELSE attendance_sessions[i][c]]
        ELSE attendance_sessions[i]]

\* session_id = f"session_{int(datetime.now().timestamp())}": two calls in the
\* same second get the same identifier.  A Tick is longer than a second, so
\* whether a call falls in the same second as the previous one made at the
\* same `now` is an input (sameSecond).
NewSessionId(sameSecond) ==
    LET here == SelectSeq(attendance_sessions, LAMBDA row: row.start_time = now)
    IN  IF sameSecond /\ here # <<>>
        THEN here[Len(here)].session_id
        ELSE Len(attendance_sessions) + 1

\* Mutant: the lower limit itself is rejected
DurationRejectedOffByOne(duration_minutes) ==
    duration_minutes <= 5 \/ duration_minutes > 120

\* if duration_minutes < 5 or duration_minutes > 120: reject
DurationRejected(duration_minutes) ==
    duration_minutes < 5 \/ duration_minutes > 120

(***************************************************************************)
(* create_session                                                          *)
(*   fault: "none", "roster" (student query raises), "insert" (session     *)
(*   insert raises) or "empty" (insert returns no data)                    *)
(***************************************************************************)
CreateFaults == {"none", "roster", "insert", "empty"}

\* Mutant: the duration is added as if it were hours
ScheduledEndHours(start_time, duration_minutes) == start_time + 60 * duration_minutes

\* end_time = start_time + timedelta(minutes=duration_minutes)
ScheduledEnd(start_time, duration_minutes) == start_time + duration_minutes

\* session_doc["students"]: the students of the class when the session is
\* created; none when the request names no attribute
Roster(scope) ==
    IF scope.department = "" /\ scope.year = "" /\ scope.division = ""
    THEN <<>>
    ELSE SelectSeq(students,
                   LAMBDA st :
                       /\ scope.department # "" => StudentScope(st).department = scope.department
                       /\ scope.year # "" => StudentScope(st).year = scope.year
                       /\ scope.division # "" => StudentScope(st).division = scope.division)

\* Mutant: the timer is started before the session is inserted
create_sessionTimerFirst(scope, duration_minutes, sameSecond, fault) ==
    LET session_id == NewSessionId(sameSecond)
        row == [id |-> Len(attendance_sessions) + 1,
                session_id |-> session_id,
                department |-> scope.department,
                year |-> scope.year,
                division |-> scope.division,
                status |-> "active",
                start_time |-> now,
                end_time |-> ScheduledEnd(now, duration_minutes),
                ended_at |-> None]
        timer == [session_id |-> session_id, due |-> now + duration_minutes, fired |-> FALSE]
    IN
    /\ IF DurationRejected(duration_minutes)
       THEN /\ resp' = Response("create", 400, duration_minutes, "", 0)
            /\ UNCHANGED <<attendance_sessions, timers, session_docs>>
       ELSE IF fault = "roster"
       THEN /\ resp' = Response("create", 500, duration_minutes, "", 0)
            /\ UNCHANGED <<attendance_sessions, timers, session_docs>>
       ELSE IF fault # "none"
       THEN /\ resp' = Response("create", 500, duration_minutes, "", 0)
            /\ timers' = Append(timers, timer)
            /\ UNCHANGED <<attendance_sessions, session_docs>>
       ELSE /\ attendance_sessions' = Append(attendance_sessions, row)
            /\ timers' = Append(timers, timer)
            /\ session_docs' = Append(session_docs, [session_id |-> session_id,
                                                     students |-> Roster(scope)])
            /\ resp' = Response("create", 200, duration_minutes, "", 0)
    /\ UNCHANGED <<now, markVars, cacheVars, procVars>>

create_session(scope, duration_minutes, sameSecond, fault) ==
    LET session_id == NewSessionId(sameSecond)
        start_time == now
        end_time   == ScheduledEnd(start_time, duration_minutes)
        row == [id |-> Len(attendance_sessions) + 1,
                session_id |-> session_id,
                department |-> scope.department,
                year |-> scope.year,
                division |-> scope.division,
                status |-> "active",
                start_time |-> start_time,
                end_time |-> end_time,
                ended_at |-> None]
    IN
    /\ IF DurationRejected(duration_minutes)
       THEN /\ resp' = Response("create", 400, duration_minutes, "", 0)
            /\ UNCHANGED <<attendance_sessions, timers, session_docs>>
       ELSE IF fault # "none"
       THEN /\ resp' = Response("create", 500, duration_minutes, "", 0)
            /\ UNCHANGED <<attendance_sessions, timers, session_docs>>
       ELSE /\ attendance_sessions' = Append(attendance_sessions, row)
            /\ timers' = Append(timers, [session_id |-> session_id,
                                         due |-> now + duration_minutes,
                                         fired |-> FALSE])
            /\ session_docs' = Append(session_docs, [session_id |-> session_id,
                                                     students |-> Roster(scope)])
            /\ resp' = Response("create", 200, duration_minutes, "", 0)
    /\ UNCHANGED <<now, markVars, cacheVars, procVars>>

(***************************************************************************)
(* auto_close_session: the Timer callback.  It runs once, at or after its  *)
(* due time; nothing cancels it.  The update may raise (caught and logged).*)
(***************************************************************************)
AutoClosePatch == [status |-> "ended", ended_at |-> Some(now)]

auto_close_session(k, updateFails) ==
    /\ ~timers[k].fired
    /\ now >= timers[k].due
    /\ timers' = [timers EXCEPT ![k].fired = TRUE]
    /\ attendance_sessions' =
          IF updateFails THEN attendance_sessions
          ELSE UpdateSessions(timers[k].session_id, AutoClosePatch)
    /\ resp' = NoResp
    /\ UNCHANGED <<now, markVars, cacheVars, session_docs, procVars>>

(***************************************************************************)
(* end_session                                                             *)
(***************************************************************************)
\* Mutant: the status written is the one create_session writes
EndSessionPatchReopen == [status |-> "active", end_time |-> now]

EndSessionPatch == [status |-> "ended", end_time |-> now]

end_session(sid, storeFails) ==
    /\ IF storeFails
       THEN /\ resp' = Response("end", 500, sid, "", 0)
            /\ UNCHANGED attendance_sessions
       ELSE IF SelectSessions(sid) = <<>>
       THEN /\ resp' = Response("end", 404, sid, "", 0)
            /\ UNCHANGED attendance_sessions
       ELSE /\ attendance_sessions' = UpdateSessions(sid, EndSessionPatch)
            /\ resp' = Response("end", 200, sid, "", 0)
    /\ UNCHANGED <<now, timers, markVars, cacheVars, session_docs, procVars>>

(***************************************************************************)
(* get_session_status.  Every session row is stored with an end_time, so   *)
(* the branch for a missing end_time is not modelled.                      *)
(***************************************************************************)
LazyPatch == [status |-> "ended"]

\* Mutant: the scheduled end itself does not count as reached
ExpiredStrictlyAfter(session) == now > session.end_time /\ session.status = "active"

\* current_time >= scheduled_end_time and session['status'] == 'active'
Expired(session) == now >= session.end_time /\ session.status = "active"

\* max(0, int(remaining_time.total_seconds() / 60)); int() truncates toward
\* zero and the operands are whole minutes
RemainingMinutes(session) == Max(0, session.end_time - now)

get_session_status(sid, storeFails) ==
    LET found == SelectSessions(sid) IN
    /\ IF storeFails
       THEN /\ resp' = Response("status", 500, sid, "", 0)
            /\ UNCHANGED attendance_sessions
       ELSE IF found = <<>>
       THEN /\ resp' = Response("status", 404, sid, "", 0)
            /\ UNCHANGED attendance_sessions
       ELSE IF Expired(found[1])
       THEN /\ attendance_sessions' = UpdateSessions(sid, LazyPatch)
            /\ resp' = Response("status", 200, sid, "ended", 0)
       ELSE /\ resp' = Response("status", 200, sid, found[1].status,
                                RemainingMinutes(found[1]))
            /\ UNCHANGED attendance_sessions
    /\ UNCHANGED <<now, timers, markVars, cacheVars, session_docs, procVars>>

(***************************************************************************)
(* Passage of time                                                         *)
(***************************************************************************)
Tick ==
    /\ now' = now + 5
    /\ resp' = NoResp
    /\ UNCHANGED <<attendance_sessions, timers, markVars, cacheVars, session_docs, procVars>>

(***************************************************************************)
(* Recognition: faces, embeddings and distances                            *)
(*                                                                         *)
(* A face of the submitted image stands for the embedding extracted from   *)
(* it.  Cosine distances are in thousandths (600 is 0.6).                  *)
(***************************************************************************)
Faces == {"f1", "f2", "ffar", "fedge", "ftie", "fdim", "fnone"}
NoStudent == ""
Threshold == 600
Inf == 1000000

\* extract_embedding_optimized returns None on failure
EmbeddingFails(face) == face = "fnone"

\* The length of the embedding extracted from a face, and of the embeddings
\* stored for the students
EmbeddingDim(face) == IF face = "fdim" THEN 128 ELSE 512
StoredDim == 512

\* scipy's cosine raises ValueError when the two vectors differ in length
CosineRaises(face, student) == EmbeddingDim(face) # StoredDim

\* cosine(emb, avg_embedding)
Dist(face, student) ==
    CASE face = "f1"    -> (IF student = "s1" THEN 200 ELSE 900)
      [] face = "f2"    -> (IF student = "s1" THEN 900 ELSE 300)
      [] face = "ffar"  -> (IF student = "s1" THEN 700 ELSE 800)
      [] face = "fedge" -> (IF student = "s1" THEN 600 ELSE 900)
      [] face = "ftie"  -> 400
      [] OTHER          -> Inf

\* best, min_d = None, inf; for student in students: if d < min_d: ...
RECURSIVE ScanStudents(_, _, _, _)
ScanStudents(face, studs, best, min_d) ==
    IF studs = <<>>
    THEN [best |-> best, min_d |-> min_d]
    ELSE LET d == Dist(face, Head(studs)) IN
         IF d < min_d
         THEN ScanStudents(face, Tail(studs), Head(studs), d)
         ELSE ScanStudents(face, Tail(studs), best, min_d)

\* Mutant: of the students at the smallest distance the last one wins
BestMatchLastWins(face, studs) ==
    LET ds == {Dist(face, studs[i]) : i \in DOMAIN studs}
        d  == CHOOSE x \in ds : \A y \in ds : x <= y
    IN  IF studs = <<>> \/ d >= Inf
        THEN [best |-> NoStudent, min_d |-> Inf]
        ELSE [best |-> studs[CHOOSE i \in DOMAIN studs :
                                 /\ Dist(face, studs[i]) = d
                                 /\ \A j \in DOMAIN studs : j > i => Dist(face, studs[j]) # d],
              min_d |-> d]

BestMatch(face, studs) == ScanStudents(face, studs, NoStudent, Inf)

\* Mutant: a distance equal to the threshold is accepted
AcceptedAtThreshold(m) == m.min_d <= Threshold /\ m.best # NoStudent

\* if min_d < threshold and best
Accepted(m) == m.min_d < Threshold /\ m.best # NoStudent

\* round((1 - min_d) * 100, 1), in tenths of a percent
Confidence(min_d) == 1000 - min_d

(***************************************************************************)
(* Store primitives on attendance_records                                  *)
(***************************************************************************)

\* .eq('session_id', id): the records of a session, in table order
SelectRecords(session) ==
    SelectSeq(attendance_records, LAMBDA rec: rec.session_id = session)

\* Mutant: the filter on the student is missing
SelectRecordAnyStudent(session, student) ==
    SelectSeq(attendance_records, LAMBDA rec: rec.session_id = session)

\* .eq('session_id', id).eq('student_enrollment', student_id)
SelectRecord(session, student) ==
    SelectSeq(attendance_records,
              LAMBDA rec: rec.session_id = session /\ rec.student_enrollment = student)

\* The message of the error the store raises.  A message is the set of the
\* phrases it contains.
ConflictMessage == {"duplicate key", "unique constraint"}
OtherMessage == {"connection"}

\* Mutant: a store without the constraint
NoConflicts(record) == FALSE

\* The store's uniqueness constraint on (session, identity)
Conflicts(record) ==
    \E i \in DOMAIN attendance_records :
        /\ attendance_records[i].session_id = record.session_id
        /\ attendance_records[i].student_enrollment = record.student_enrollment

\* EmbeddingStore.InsertAttendance(record) -> record | ConflictError.
\* fault: "none", "error" (the call raises another error) or "empty" (the
\* call returns no data and stores nothing)
InsertFaults == {"none", "error", "empty"}

\* Mutant: the insert is an upsert, which rewrites the record of the pair
InsertAttendanceUpsert(record, fault) ==
    IF fault = "error"
    THEN [kind |-> "raise", message |-> OtherMessage, table |-> attendance_records]
    ELSE IF Conflicts(record)
    THEN [kind |-> "data", message |-> {},
          table |-> [i \in DOMAIN attendance_records |->
                        IF /\ attendance_records[i].session_id = record.session_id
                           /\ attendance_records[i].student_enrollment
                                 = record.student_enrollment
                        THEN record ELSE attendance_records[i]]]
    ELSE IF fault = "empty"
    THEN [kind |-> "empty", message |-> {}, table |-> attendance_records]
    ELSE [kind |-> "data", message |-> {}, table |-> Append(attendance_records, record)]

InsertAttendance(record, fault) ==
    IF fault = "error"
    THEN [kind |-> "raise", message |-> OtherMessage, table |-> attendance_records]
    ELSE IF Conflicts(record)
    THEN [kind |-> "raise", message |-> ConflictMessage, table |-> attendance_records]
    ELSE IF fault = "empty"
    THEN [kind |-> "empty", message |-> {}, table |-> attendance_records]
    ELSE [kind |-> "data", message |-> {}, table |-> Append(attendance_records, record)]

\* history: the store's answer to a call of worker w
NoReply == [call |-> "", kind |-> ""]
Reply(call, kind) == [call |-> call, kind |-> kind]

InsertKind(out) ==
    IF out.kind = "raise"
    THEN (IF out.message = ConflictMessage THEN "conflict" ELSE "error")
    ELSE out.kind

\* Mutant: the handler looks for a phrase the store does not use
IsConstraintViolationOtherPhrase(message) ==
    "unique violation" \in message

\* "duplicate key" in str(db_error).lower() or "unique constraint" in ...
IsConstraintViolation(message) ==
    "duplicate key" \in message \/ "unique constraint" \in message

(***************************************************************************)
(* mark_attendance_with_duplicate_prevention (/real-mark)                  *)
(*                                                                         *)
(* A request is one worker thread's run of the handler.  Each call to the  *)
(* store is one step; the computation between two calls belongs to the     *)
(* step of the call before it.  When the handler returns, its response   *)
(* goes to resp and the worker is idle again.                              *)
(*   pc: idle, read_marked, read_students, final_check, insert             *)
(***************************************************************************)
IdleReq ==
    [pc |-> "idle", code |-> 0, session |-> 0, faces |-> <<>>, idx |-> 1,
     students |-> <<>>, already |-> {}, results |-> <<>>]

\* One entry of "faces" in the response.  flag is the marker the code puts
\* on a duplicate: duplicate_detection, race_condition_prevented or
\* constraint_violation; first_time_marking on a new mark.
FaceResult(match, status, distance, marked_at, flag) ==
    [match |-> match, status |-> status, distance |-> distance, marked_at |-> marked_at,
     flag |-> flag]

\* The handler returns with this HTTP code
Finish(r, code) == [r EXCEPT !.pc = "done", !.code = code]

AddResult(r, result) ==
    [r EXCEPT !.results = Append(@, result), !.idx = @ + 1]

MarkedAt(already, student) ==
    (CHOOSE e \in already : e.student = student).marked_at

\* Mutant: the records read at the start are not consulted
FastPathNever(already, student) == FALSE

\* if student_id in already_present_students
FastPathHit(already, student) == \E e \in already : e.student = student

\* The loop over the faces, run until the next call to the store
RECURSIVE Advance(_)
Advance(r) ==
    IF r.idx > Len(r.faces)
    THEN Finish(r, 200)
    ELSE LET face == r.faces[r.idx]
             m    == BestMatch(face, r.students)
         IN
         IF EmbeddingFails(face)
         THEN Advance(AddResult(r, FaceResult(NoStudent, "error", None, None, "")))
         ELSE IF \E i \in DOMAIN r.students : CosineRaises(face, r.students[i])
         THEN Finish(r, 500)
         ELSE IF Accepted(m)
         THEN IF FastPathHit(r.already, m.best)
              THEN Advance(AddResult(r, FaceResult(m.best, "duplicate", Some(m.min_d),
                                                   MarkedAt(r.already, m.best),
                                                   "duplicate_detection")))
              ELSE [r EXCEPT !.pc = "final_check"]
         ELSE Advance(AddResult(r, FaceResult(NoStudent, "no_match",
                                   IF m.min_d # Inf THEN Some(m.min_d) ELSE None, None, "")))

\* history: the outcomes a finished request returns, counted per
\* (session, identity, status)
RECURSIVE Tally(_, _, _)
Tally(counts, session, results) ==
    IF results = <<>>
    THEN counts
    ELSE LET res == Head(results)
             key == <<session, res.match, res.status>>
         IN  Tally(IF key \in DOMAIN counts
                   THEN [counts EXCEPT ![key] = @ + 1]
                   ELSE counts,
                   session, Tail(results))

Returned(r) == IF r.pc = "done" /\ r.code = 200 THEN r.results ELSE <<>>

\* One step of worker w that takes its request to r; rep is the store's answer
Step(w, r, rep) ==
    /\ req' = [req EXCEPT ![w] = IF r.pc = "done" THEN IdleReq ELSE r]
    /\ resp' = IF r.pc = "done" THEN MarkResponse(r.code, r.session, Returned(r)) ELSE NoResp
    /\ log' = Tally(log, r.session, Returned(r))
    /\ faulted' = (faulted \/ rep.kind \in {"fail", "empty", "error"})
    /\ reply' = IF rep.call = "insert" THEN rep ELSE NoReply
    /\ UNCHANGED <<cacheVars, session_docs, procVars>>

\* Mutant: the status of the session is not looked at
SessionOpenAlways(session_doc) == TRUE

\* session_doc.get("status") != "active": the request is refused
SessionOpen(session_doc) == session_doc.status = "active"

\* Mutant: the session is read before the models are checked
MarkStartSessionFirst(w, sid, faces, modelReady, storeFails) ==
    LET found == SelectSessions(sid)
        r0 == [IdleReq EXCEPT !.faces = faces]
    IN
    /\ req[w].pc = "idle"
    /\ calls' = calls + 1
    /\ UNCHANGED <<now, attendance_sessions, timers, attendance_records, students>>
    /\ IF storeFails THEN Step(w, Finish(r0, 500), Reply("session", "fail"))
       ELSE IF found = <<>> THEN Step(w, Finish(r0, 404), Reply("session", "ok"))
       ELSE IF ~SessionOpen(found[1])
       THEN Step(w, Finish(r0, 400), Reply("session", "ok"))
       ELSE IF ~modelReady THEN Step(w, Finish(r0, 503), NoReply)
       ELSE IF faces = <<>> THEN Step(w, Finish(r0, 200), NoReply)
       ELSE Step(w, [r0 EXCEPT !.pc = "read_marked", !.session = found[1].id],
                 Reply("session", "ok"))

\* Entry: model check, arguments, face detection, then the session select
MarkStart(w, sid, faces, modelReady, storeFails) ==
    LET found == SelectSessions(sid)
        r0 == [IdleReq EXCEPT !.faces = faces]
    IN
    /\ req[w].pc = "idle"
    /\ calls' = calls + 1
    /\ UNCHANGED <<now, attendance_sessions, timers, attendance_records, students>>
    /\ IF ~modelReady THEN Step(w, Finish(r0, 503), NoReply)
       ELSE IF faces = <<>> THEN Step(w, Finish(r0, 200), NoReply)
       ELSE IF storeFails THEN Step(w, Finish(r0, 500), Reply("session", "fail"))
       ELSE IF found = <<>> THEN Step(w, Finish(r0, 404), Reply("session", "ok"))
       ELSE IF ~SessionOpen(found[1])
       THEN Step(w, Finish(r0, 400), Reply("session", "ok"))
       ELSE Step(w, [r0 EXCEPT !.pc = "read_marked", !.session = found[1].id],
                 Reply("session", "ok"))

\* marked_result: the records already stored for the session
MarkReadMarked(w, storeFails) ==
    LET r == req[w]
        marked == SelectRecords(r.session)
        already == {[student |-> marked[i].student_enrollment,
                     marked_at |-> Some(marked[i].marked_at)] : i \in DOMAIN marked}
    IN
    /\ r.pc = "read_marked"
    /\ UNCHANGED <<now, attendance_sessions, timers, attendance_records, students, calls>>
    /\ IF storeFails THEN Step(w, Finish(r, 500), Reply("marked", "fail"))
       ELSE Step(w, [r EXCEPT !.pc = "read_students", !.already = already],
                 Reply("marked", "ok"))

\* Mutant: the candidates are the students the session document listed
\* when the session was created
MarkReadStudentsRoster(w, storeFails) ==
    LET r == req[w] IN
    /\ r.pc = "read_students"
    /\ UNCHANGED <<now, attendance_sessions, timers, attendance_records, students, calls>>
    /\ IF storeFails THEN Step(w, Finish(r, 500), Reply("students", "fail"))
       ELSE Step(w, Advance([r EXCEPT !.students = session_docs[r.session].students]),
                 Reply("students", "ok"))

\* students_result: all students with embeddings; then the loop starts
MarkReadStudents(w, storeFails) ==
    LET r == req[w] IN
    /\ r.pc = "read_students"
    /\ UNCHANGED <<now, attendance_sessions, timers, attendance_records, students, calls>>
    /\ IF storeFails THEN Step(w, Finish(r, 500), Reply("students", "fail"))
       ELSE Step(w, Advance([r EXCEPT !.students = students]), Reply("students", "ok"))

\* final_check: the second look at the store before the insert
MarkFinalCheck(w, storeFails) ==
    LET r == req[w]
        m == BestMatch(r.faces[r.idx], r.students)
    IN
    /\ r.pc = "final_check"
    /\ UNCHANGED <<now, attendance_sessions, timers, attendance_records, students, calls>>
    /\ IF storeFails THEN Step(w, Finish(r, 500), Reply("final_check", "fail"))
       ELSE IF SelectRecord(r.session, m.best) # <<>>
       THEN Step(w, Advance(AddResult(r, FaceResult(m.best, "duplicate", Some(m.min_d), None,
                                                    "race_condition_prevented"))),
                 Reply("final_check", "ok"))
       ELSE Step(w, [r EXCEPT !.pc = "insert"], Reply("final_check", "ok"))

\* Mutant: the error raised by the insert is swallowed and the face is
\* reported as marked
InsertOutcomeSwallow(out, r, m, marked_at) ==
    IF out.kind = "empty"
    THEN [r EXCEPT !.results = Append(@, [match |-> m.best, status |-> "error",
                                          distance |-> <<m.min_d>>, marked_at |-> <<>>,
                                          flag |-> ""]),
                   !.idx = @ + 1]
    ELSE [r EXCEPT !.results = Append(@, [match |-> m.best, status |-> "marked_present",
                                          distance |-> <<m.min_d>>,
                                          marked_at |-> <<marked_at>>,
                                          flag |-> "first_time_marking"]),
                   !.idx = @ + 1,
                   !.already = @ \cup {[student |-> m.best, marked_at |-> <<marked_at>>]}]

\* Mutant: a student whose insert failed is remembered as present for the
\* rest of the request
InsertOutcomeRemembersFailure(out, r, m, marked_at) ==
    LET seen == [r EXCEPT !.already = @ \cup {[student |-> m.best,
                                                marked_at |-> Some(marked_at)]}]
    IN
    IF out.kind = "data"
    THEN AddResult(seen, FaceResult(m.best, "marked_present", Some(m.min_d), Some(marked_at),
                                    "first_time_marking"))
    ELSE IF out.kind = "raise" /\ IsConstraintViolation(out.message)
    THEN AddResult(r, FaceResult(m.best, "duplicate", Some(m.min_d), None,
                                 "constraint_violation"))
    ELSE AddResult(seen, FaceResult(m.best, "error", Some(m.min_d), None, ""))

\* The outcome of the insert for the face being processed
InsertOutcome(out, r, m, marked_at) ==
    IF out.kind = "data"
    THEN AddResult([r EXCEPT !.already = @ \cup {[student |-> m.best,
                                                   marked_at |-> Some(marked_at)]}],
                   FaceResult(m.best, "marked_present", Some(m.min_d), Some(marked_at),
                              "first_time_marking"))
    ELSE IF out.kind = "empty"
    THEN AddResult(r, FaceResult(m.best, "error", Some(m.min_d), None, ""))
    ELSE IF IsConstraintViolation(out.message)
    THEN AddResult(r, FaceResult(m.best, "duplicate", Some(m.min_d), None,
                                 "constraint_violation"))
    ELSE AddResult(r, FaceResult(m.best, "error", Some(m.min_d), None, ""))

\* MARK ATTENDANCE: the insert
MarkInsert(w, fault) ==
    LET r == req[w]
        m == BestMatch(r.faces[r.idx], r.students)
        attendance_record ==
            [session_id |-> r.session,
             student_enrollment |-> m.best,
             status |-> "present",
             confidence |-> Confidence(m.min_d),
             marked_at |-> now]
        out == InsertAttendance(attendance_record, fault)
    IN
    /\ r.pc = "insert"
    /\ attendance_records' = out.table
    /\ UNCHANGED <<now, attendance_sessions, timers, students, calls>>
    /\ Step(w, Advance(InsertOutcome(out, r, m, attendance_record.marked_at)),
            Reply("insert", InsertKind(out)))

(***************************************************************************)
(* The embedding caches and the cached matchers                            *)
(*   AttendanceEmbeddingCache, find_best_match_optimized_attendance        *)
(*   (teacher/attendance_records.py) and EmbeddingCache,                   *)
(*   find_best_match_optimized (student/demo_session.py).                  *)
(* A cached entry is the list of the students fetched; the embedding of a  *)
(* student is what Dist measures against.                                  *)
(***************************************************************************)
\* time.time(): seconds since the epoch
Epoch == 100000
TimeTime == Epoch + 60 * now

\* self.cache_duration
AttendanceCacheDuration == 600
DemoCacheDuration == 300

\* A session that sets no attribute
AllScope == [department |-> "", year |-> "", division |-> ""]
SessionDocs == {ClassScope, AllScope}

\* A filter is a dict: its (attribute, value) items in insertion order.
\* Every student of the table has embeddings, so the condition on
\* "embeddings" that every filter carries is left out.
NoFilter == <<>>

\* student_filter of find_best_match_optimized_attendance: the attributes
\* the session sets, department first, then year, then division
BuildFilter(session_doc) ==
    (IF session_doc.department # "" THEN <<<<"department", session_doc.department>>>> ELSE <<>>)
    \o (IF session_doc.year # "" THEN <<<<"year", session_doc.year>>>> ELSE <<>>)
    \o (IF session_doc.division # "" THEN <<<<"division", session_doc.division>>>> ELSE <<>>)

\* The filters get_session_embeddings is called with: the ones built from
\* the sessions, and the class filter with its items the other way round
Filters ==
    {BuildFilter(doc) : doc \in SessionDocs} \cup {<<<<"year", "2">>, <<"department", "CS">>>>}

\* The order of the attribute names as Python compares strings
AttrRank(a) ==
    CASE a = "department" -> 1
      [] a = "division"   -> 2
      [] a = "year"       -> 3

\* sorted(): the item goes before the first item of a greater attribute
RECURSIVE InsertItem(_, _)
InsertItem(item, sorted) ==
    IF sorted = <<>> THEN <<item>>
    ELSE IF AttrRank(item[1]) < AttrRank(Head(sorted)[1])
    THEN <<item>> \o sorted
    ELSE <<Head(sorted)>> \o InsertItem(item, Tail(sorted))

RECURSIVE SortedItems(_)
SortedItems(items) ==
    IF items = <<>> THEN <<>>
    ELSE InsertItem(items[Len(items)], SortedItems(SubSeq(items, 1, Len(items) - 1)))

\* Mutant: the items are not sorted
CacheKeyUnsorted(session_filter) == session_filter

\* cache_key = str(sorted(session_filter.items()))
CacheKey(session_filter) == SortedItems(session_filter)

\* students_col.find(session_filter): the students with every attribute
\* the filter sets
FindStudents(session_filter) ==
    SelectSeq(students,
              LAMBDA st : \A i \in DOMAIN session_filter :
                             StudentScope(st)[session_filter[i][1]] = session_filter[i][2])

\* Mutant: the age is compared with the duration taken as milliseconds
StaleMillis(last_update, cache_duration) ==
    TimeTime - last_update > 1000 * cache_duration

\* current_time - last_update > self.cache_duration
Stale(last_update, cache_duration) == TimeTime - last_update > cache_duration

\* dict[key] = value
Put(dict, key, value) ==
    [k \in DOMAIN dict \cup {key} |-> IF k = key THEN value ELSE dict[k]]

\* What a call of a cache returned: the entry or an exception, and what it
\* did with the store (fetch: "none", "ok" or "raise")
CacheResult(outcome, entry, fetch, cache) ==
    [outcome |-> outcome, entry |-> entry, fetch |-> fetch, cache |-> cache]

\* Mutant: a fetch that finds no student is treated as a failed fetch
GetSessionEmbeddingsEmptyIsError(session_filter, fetchFails) ==
    LET cache_key == CacheKey(session_filter) IN
    IF \/ cache_key \notin DOMAIN attendance_cache.cached_embeddings
       \/ Stale(IF cache_key \in DOMAIN attendance_cache.last_update
                THEN attendance_cache.last_update[cache_key] ELSE 0,
                AttendanceCacheDuration)
    THEN IF fetchFails \/ FindStudents(session_filter) = <<>>
         THEN CacheResult("raise", <<>>, IF fetchFails THEN "raise" ELSE "ok", attendance_cache)
         ELSE LET session_embeddings == FindStudents(session_filter) IN
              CacheResult("data", session_embeddings, "ok",
                  [cached_embeddings |->
                       Put(attendance_cache.cached_embeddings, cache_key, session_embeddings),
                   last_update |-> Put(attendance_cache.last_update, cache_key, TimeTime)])
    ELSE CacheResult("data", attendance_cache.cached_embeddings[cache_key], "none",
                     attendance_cache)

\* AttendanceEmbeddingCache.get_session_embeddings
GetSessionEmbeddings(session_filter, fetchFails) ==
    LET cache_key == CacheKey(session_filter) IN
    IF \/ cache_key \notin DOMAIN attendance_cache.cached_embeddings
       \/ Stale(IF cache_key \in DOMAIN attendance_cache.last_update
                THEN attendance_cache.last_update[cache_key] ELSE 0,
                AttendanceCacheDuration)
    THEN IF fetchFails
         THEN CacheResult("raise", <<>>, "raise", attendance_cache)
         ELSE LET session_embeddings == FindStudents(session_filter) IN
              CacheResult("data", session_embeddings, "ok",
                  [cached_embeddings |->
                       Put(attendance_cache.cached_embeddings, cache_key, session_embeddings),
                   last_update |-> Put(attendance_cache.last_update, cache_key, TimeTime)])
    ELSE CacheResult("data", attendance_cache.cached_embeddings[cache_key], "none",
                     attendance_cache)

\* EmbeddingCache.get_embeddings
GetEmbeddings(fetchFails) ==
    IF \/ embedding_cache.student_embeddings = None
       \/ Stale(embedding_cache.last_update, DemoCacheDuration)
    THEN IF fetchFails
         THEN IF embedding_cache.student_embeddings = None
              THEN CacheResult("data", <<>>, "raise",
                               [embedding_cache EXCEPT !.student_embeddings = Some(<<>>)])
              ELSE CacheResult("data", embedding_cache.student_embeddings[1], "raise",
                               embedding_cache)
         ELSE IF students = <<>>
         THEN CacheResult("data", <<>>, "ok",
                          [embedding_cache EXCEPT !.student_embeddings = Some(<<>>)])
         ELSE CacheResult("data", students, "ok",
                          [student_embeddings |-> Some(students), last_update |-> TimeTime])
    ELSE CacheResult("data", embedding_cache.student_embeddings[1], "none", embedding_cache)

\* Mutant: a distance equal to the threshold is a match
BestIfBelowOrEqual(m, threshold) == IF m.min_d <= threshold THEN m.best ELSE NoStudent

\* best_match if min_distance < threshold else None
BestIfBelow(m, threshold) == IF m.min_d < threshold THEN m.best ELSE NoStudent

\* The scan of find_best_match_optimized_attendance and of
\* find_best_match_optimized over the cached entry
FindBest(query_embedding, cached_embeddings, threshold) ==
    IF cached_embeddings = <<>>
    THEN [best_match |-> NoStudent, min_distance |-> Inf]
    ELSE LET m == BestMatch(query_embedding, cached_embeddings) IN
         [best_match |-> BestIfBelow(m, threshold), min_distance |-> m.min_d]

\* The response of a cache call or of a matcher
CacheResponse(op, filter, query, got, found) ==
    [op |-> op, filter |-> filter, key |-> CacheKey(filter), query |-> query, outcome |-> got.outcome, entry |-> got.entry,
     fetch |-> got.fetch, best_match |-> found.best_match,
     min_distance |-> found.min_distance]

NotSearched == [best_match |-> NoStudent, min_distance |-> Inf]

cacheFrame == <<now, attendance_sessions, timers, attendance_records, req, log, calls,
                faulted, reply, lock, callers, session_docs, procVars>>

get_session_embeddings(session_filter, fetchFails) ==
    LET got == GetSessionEmbeddings(session_filter, fetchFails) IN
    /\ attendance_cache' = got.cache
    /\ resp' = CacheResponse("get_session_embeddings", session_filter, "", got, NotSearched)
    /\ UNCHANGED <<cacheFrame, students, embedding_cache>>

find_best_match_optimized_attendance(query_embedding, session_doc, fetchFails) ==
    LET student_filter == BuildFilter(session_doc)
        got == GetSessionEmbeddings(student_filter, fetchFails)
    IN
    /\ attendance_cache' = got.cache
    /\ resp' = CacheResponse("find_best_match_optimized_attendance", student_filter,
                             query_embedding, got,
                             IF got.outcome = "raise" THEN NotSearched
                             ELSE FindBest(query_embedding, got.entry, Threshold))
    /\ UNCHANGED <<cacheFrame, students, embedding_cache>>

get_embeddings(fetchFails) ==
    LET got == GetEmbeddings(fetchFails) IN
    /\ embedding_cache' = got.cache
    /\ resp' = CacheResponse("get_embeddings", NoFilter, "", got, NotSearched)
    /\ UNCHANGED <<cacheFrame, students, attendance_cache>>

find_best_match_optimized(query_embedding, fetchFails) ==
    LET got == GetEmbeddings(fetchFails) IN
    /\ embedding_cache' = got.cache
    /\ resp' = CacheResponse("find_best_match_optimized", NoFilter, query_embedding, got,
                             FindBest(query_embedding, got.entry, Threshold))
    /\ UNCHANGED <<cacheFrame, students, attendance_cache>>

\* register_student: a new row of table students
register_student(student) ==
    /\ \A i \in DOMAIN students : students[i] # student
    /\ students' = Append(students, student)
    /\ resp' = NoResp
    /\ UNCHANGED <<cacheFrame, cacheVars>>

(***************************************************************************)
(* EmbeddingCache.get_embeddings, statement by statement, for calls that   *)
(* overlap.  The list self.student_embeddings refers to is an object: a    *)
(* caller that was handed it keeps a reference (alias) until the attribute *)
(* is bound to a new list; an append changes the object, and with it what  *)
(* every holder of a reference sees.                                       *)
(*   pc: idle, lock (at "with self.lock"), fetch, build, return            *)
(*   ret: the list the last call returned, as it was at the return (seen)  *)
(***************************************************************************)
NoList == [held |-> FALSE, seen |-> <<>>, alias |-> FALSE]

IdleCaller ==
    [pc |-> "idle", current_time |-> 0, pending |-> <<>>, n |-> 0, ret |-> NoList]

\* self.student_embeddings = []: the attribute is bound to a new, empty
\* list; the lists handed out before are no longer the cached one
Detach(cs) == [t \in DOMAIN cs |-> [cs[t] EXCEPT !.ret.alias = FALSE]]

threadFrame == <<now, attendance_sessions, timers, markVars, attendance_cache, session_docs,
                 procVars>>

\* current_time = time.time()
GetEnter(t) ==
    /\ callers[t].pc = "idle"
    /\ callers[t].n < MaxGetCalls
    /\ callers' = [callers EXCEPT ![t] = [pc |-> "lock", current_time |-> TimeTime,
                                          pending |-> <<>>, n |-> callers[t].n + 1,
                                          ret |-> NoList]]
    /\ resp' = NoResp
    /\ UNCHANGED <<threadFrame, embedding_cache, lock>>

\* with self.lock: if self.student_embeddings is None or
\* current_time - self.last_update > self.cache_duration
GetAcquire(t) ==
    /\ callers[t].pc = "lock"
    /\ lock = 0
    /\ IF \/ embedding_cache.student_embeddings = None
          \/ callers[t].current_time - embedding_cache.last_update > DemoCacheDuration
       THEN /\ lock' = t
            /\ callers' = [callers EXCEPT ![t].pc = "fetch"]
       ELSE /\ lock' = 0
            /\ callers' = [callers EXCEPT ![t].pc = "return"]
    /\ resp' = NoResp
    /\ UNCHANGED <<threadFrame, embedding_cache>>

\* result = supabase.table('students')...execute(), and what follows up to
\* the first append
GetFetch(t, fetchFails) ==
    /\ callers[t].pc = "fetch"
    /\ lock = t
    /\ IF fetchFails
       THEN /\ embedding_cache' =
                  IF embedding_cache.student_embeddings = None
                  THEN [embedding_cache EXCEPT !.student_embeddings = Some(<<>>)]
                  ELSE embedding_cache
            /\ callers' =
                  [(IF embedding_cache.student_embeddings = None
                    THEN Detach(callers) ELSE callers) EXCEPT ![t].pc = "return"]
            /\ lock' = 0
            /\ resp' = NoResp
       ELSE IF students = <<>>
       THEN /\ embedding_cache' = [embedding_cache EXCEPT !.student_embeddings = Some(<<>>)]
            /\ callers' = [Detach(callers) EXCEPT
                              ![t].pc = "idle",
                              ![t].ret = [held |-> TRUE, seen |-> <<>>, alias |-> TRUE]]
            /\ lock' = 0
            /\ resp' = CacheResponse("get_embeddings", NoFilter, "",
                                     CacheResult("data", <<>>, "ok", embedding_cache'),
                                     NotSearched)
       ELSE /\ embedding_cache' = [embedding_cache EXCEPT !.student_embeddings = Some(<<>>)]
            /\ callers' = [Detach(callers) EXCEPT
                              ![t].pc = "build", ![t].pending = students]
            /\ lock' = lock
            /\ resp' = NoResp
    /\ UNCHANGED threadFrame

\* self.student_embeddings.append({...}) for the next student of result.data
GetAppend(t) ==
    /\ callers[t].pc = "build"
    /\ callers[t].pending # <<>>
    /\ embedding_cache' =
          [embedding_cache EXCEPT
              !.student_embeddings = Some(Append(@[1], Head(callers[t].pending)))]
    /\ callers' = [callers EXCEPT ![t].pending = Tail(@)]
    /\ resp' = NoResp
    /\ UNCHANGED <<threadFrame, lock>>

\* self.last_update = current_time, and the end of the with block
GetStamp(t) ==
    /\ callers[t].pc = "build"
    /\ callers[t].pending = <<>>
    /\ embedding_cache' = [embedding_cache EXCEPT !.last_update = callers[t].current_time]
    /\ callers' = [callers EXCEPT ![t].pc = "return"]
    /\ lock' = 0
    /\ resp' = NoResp
    /\ UNCHANGED threadFrame

\* return self.student_embeddings, after the with block
GetReturn(t) ==
    /\ callers[t].pc = "return"
    /\ callers' = [callers EXCEPT
                      ![t].pc = "idle",
                      ![t].ret = [held |-> TRUE, seen |-> embedding_cache.student_embeddings[1],
                                  alias |-> TRUE]]
    /\ resp' = CacheResponse("get_embeddings", NoFilter, "",
                             CacheResult("data", embedding_cache.student_embeddings[1],
                                         "none", embedding_cache),
                             NotSearched)
    /\ UNCHANGED <<threadFrame, embedding_cache, lock>>

(***************************************************************************)
(* Specifications                                                          *)
(***************************************************************************)
(***************************************************************************)
(* ModelManager.__new__ (app.py), statement by statement, for constructor  *)
(* calls that overlap.  instance and lock are the class attributes         *)
(* _instance and _lock; an instance is named by the order of its creation. *)
(*   pc: idle, lock (at "with cls._lock"), check, create, init, return     *)
(* history: created counts the objects super().__new__ made, initialized   *)
(* the runs of _initialize_models, started the constructor calls, handed   *)
(* the instances the calls returned, raised the calls that raised.         *)
(***************************************************************************)
NoManager ==
    [instance |-> None, lock |-> 0, models_ready |-> FALSE,
     pc |-> [t \in Workers |-> "idle"],
     created |-> 0, initialized |-> 0, started |-> 0, handed |-> {}, raised |-> 0]

managerFrame == <<now, attendance_sessions, timers, markVars, cacheVars, session_docs,
                  supervisor>>

\* if cls._instance is None (outside the lock)
NewEnter(t) ==
    /\ model_manager.pc[t] = "idle"
    /\ model_manager.started < MaxNewCalls
    /\ model_manager' =
          [model_manager EXCEPT !.started = @ + 1,
                                !.pc[t] = IF model_manager.instance = None
                                          THEN "lock" ELSE "return"]
    /\ resp' = NoResp
    /\ UNCHANGED managerFrame

\* with cls._lock
NewAcquire(t) ==
    /\ model_manager.pc[t] = "lock"
    /\ model_manager.lock = 0
    /\ model_manager' = [model_manager EXCEPT !.lock = t, !.pc[t] = "check"]
    /\ resp' = NoResp
    /\ UNCHANGED managerFrame

\* Mutant: the instance is not looked at again under the lock
NewCheckOnce(t) ==
    /\ model_manager.pc[t] = "check"
    /\ model_manager' = [model_manager EXCEPT !.pc[t] = "create"]
    /\ resp' = NoResp
    /\ UNCHANGED managerFrame

\* if cls._instance is None (under the lock)
NewCheck(t) ==
    /\ model_manager.pc[t] = "check"
    /\ model_manager' =
          IF model_manager.instance = None
          THEN [model_manager EXCEPT !.pc[t] = "create"]
          ELSE [model_manager EXCEPT !.lock = 0, !.pc[t] = "return"]
    /\ resp' = NoResp
    /\ UNCHANGED managerFrame

\* cls._instance = super().__new__(cls)
NewCreate(t) ==
    /\ model_manager.pc[t] = "create"
    /\ model_manager' =
          [model_manager EXCEPT !.created = @ + 1,
                                !.instance = Some(model_manager.created + 1),
                                !.pc[t] = "init"]
    /\ resp' = NoResp
    /\ UNCHANGED managerFrame

\* cls._instance._initialize_models(): it sets models_ready, or it raises
\* again what the loading raised and the call ends with that exception;
\* either way the lock is released
NewInitialize(t, loadFails) ==
    /\ model_manager.pc[t] = "init"
    /\ model_manager' =
          [model_manager EXCEPT !.initialized = @ + 1,
                                !.models_ready = ~loadFails,
                                !.lock = 0,
                                !.raised = IF loadFails THEN @ + 1 ELSE @,
                                !.pc[t] = IF loadFails THEN "idle" ELSE "return"]
    /\ resp' = NoResp
    /\ UNCHANGED managerFrame

\* return cls._instance
NewReturn(t) ==
    /\ model_manager.pc[t] = "return"
    /\ model_manager' =
          [model_manager EXCEPT !.handed = @ \cup {model_manager.instance[1]},
                                !.pc[t] = "idle"]
    /\ resp' = NoResp
    /\ UNCHANGED managerFrame

(***************************************************************************)
(* ServerManager (start_server.py): run_with_monitoring on the main thread *)
(* and monitor_server on the monitor thread, statement by statement.  A    *)
(* child process is named by the order of its start; running holds the     *)
(* children that are alive, whether self.process still refers to them or   *)
(* not.                                                                    *)
(*   pc of main:    start, loop, poll, r_*, finally, done                  *)
(*   pc of monitor: off, loop, r_*, done                                   *)
(*   r_check, r_load, r_store, r_stop, r_start: inside restart_server      *)
(* history: restarts counts the children restart_server has started.       *)
(* self.max_restarts is 10 in the source; the model counts to a smaller    *)
(* limit, and stops starting children after MaxChildren of them.           *)
(***************************************************************************)

SupervisorThreads == {"main", "monitor"}

NewServerManager ==
    [process |-> None, should_run |-> TRUE, restart_count |-> 0,
     started |-> 0, running |-> {}, restarts |-> 0,
     pc |-> [main |-> "start", monitor |-> "off"],
     loaded |-> [main |-> 0, monitor |-> 0]]

supervisorFrame == <<now, attendance_sessions, timers, markVars, cacheVars, session_docs,
                     model_manager>>

\* subprocess.Popen: a new child, and self.process refers to it
StartServer(sv) ==
    [sv EXCEPT !.started = @ + 1,
               !.running = @ \cup {sv.started + 1},
               !.process = Some(sv.started + 1)]

\* stop_server: the child self.process refers to is terminated
StopServer(sv) ==
    IF sv.process = None
    THEN sv
    ELSE [sv EXCEPT !.running = @ \ {sv.process[1]}, !.process = None]

\* not self.process or self.process.poll() is not None
ProcessEnded(sv) == IF sv.process = None THEN TRUE ELSE sv.process[1] \notin sv.running

\* run_with_monitoring up to its main loop: the first child and the monitor thread
run_with_monitoring(startFails) ==
    /\ supervisor.pc.main = "start"
    /\ supervisor' =
          IF startFails
          THEN [supervisor EXCEPT !.pc.main = "done"]
          ELSE [StartServer(supervisor) EXCEPT !.pc.main = "loop", !.pc.monitor = "loop"]
    /\ resp' = NoResp
    /\ UNCHANGED supervisorFrame

\* while self.should_run and self.process
MainLoop ==
    /\ supervisor.pc.main = "loop"
    /\ supervisor' =
          [supervisor EXCEPT !.pc.main =
              IF supervisor.should_run /\ supervisor.process # None THEN "poll" ELSE "finally"]
    /\ resp' = NoResp
    /\ UNCHANGED supervisorFrame

\* if self.process.poll() is not None: with self.process None the attribute
\* access raises and the loop is left through the finally clause
MainPoll ==
    /\ supervisor.pc.main = "poll"
    /\ supervisor' =
          [supervisor EXCEPT !.pc.main =
              IF supervisor.process = None THEN "finally"
              ELSE IF ProcessEnded(supervisor) /\ supervisor.should_run THEN "r_check"
              ELSE "loop"]
    /\ resp' = NoResp
    /\ UNCHANGED supervisorFrame

\* finally: self.stop_server(); the manager exits and its daemon thread with it
MainFinally ==
    /\ supervisor.pc.main = "finally"
    /\ supervisor' = [StopServer(supervisor) EXCEPT !.pc.main = "done", !.pc.monitor = "done"]
    /\ resp' = NoResp
    /\ UNCHANGED supervisorFrame

\* monitor_server: one turn of its loop that finds something to do (a turn
\* that finds the server healthy only sleeps)
MonitorLoop ==
    /\ supervisor.pc.monitor = "loop"
    /\ ~supervisor.should_run \/ ProcessEnded(supervisor)
    /\ supervisor' =
          [supervisor EXCEPT !.pc.monitor = IF ~supervisor.should_run THEN "done" ELSE "r_check"]
    /\ resp' = NoResp
    /\ UNCHANGED supervisorFrame

\* if self.restart_count >= self.max_restarts
RestartLimit(restart_count) == restart_count >= max_restarts

\* restart_server, the test of the limit
RestartCheck(th) ==
    /\ supervisor.pc[th] = "r_check"
    /\ supervisor' =
          IF RestartLimit(supervisor.restart_count)
          THEN [supervisor EXCEPT !.should_run = FALSE, !.pc[th] = "loop"]
          ELSE [supervisor EXCEPT !.pc[th] = "r_load"]
    /\ resp' = NoResp
    /\ UNCHANGED supervisorFrame

\* self.restart_count += 1, the read
RestartLoad(th) ==
    /\ supervisor.pc[th] = "r_load"
    /\ supervisor' = [supervisor EXCEPT !.loaded[th] = supervisor.restart_count,
                                        !.pc[th] = "r_store"]
    /\ resp' = NoResp
    /\ UNCHANGED supervisorFrame

\* self.restart_count += 1, the write
RestartStore(th) ==
    /\ supervisor.pc[th] = "r_store"
    /\ supervisor' = [supervisor EXCEPT !.restart_count = supervisor.loaded[th] + 1,
                                        !.loaded[th] = 0,
                                        !.pc[th] = "r_stop"]
    /\ resp' = NoResp
    /\ UNCHANGED supervisorFrame

\* self.stop_server(), then time.sleep(self.restart_delay)
RestartStop(th) ==
    /\ supervisor.pc[th] = "r_stop"
    /\ supervisor' = [StopServer(supervisor) EXCEPT !.pc[th] = "r_start"]
    /\ resp' = NoResp
    /\ UNCHANGED supervisorFrame

\* self.start_server()
RestartStart(th, startFails) ==
    /\ supervisor.pc[th] = "r_start"
    /\ supervisor.started < MaxChildren
    /\ supervisor' =
          IF startFails
          THEN [supervisor EXCEPT !.pc[th] = "loop"]
          ELSE [StartServer(supervisor) EXCEPT !.restarts = @ + 1, !.pc[th] = "loop"]
    /\ resp' = NoResp
    /\ UNCHANGED supervisorFrame

\* signal_handler: SIGINT or SIGTERM while the manager runs
signal_handler ==
    /\ supervisor.pc.main \notin {"start", "done"}
    /\ supervisor' = [StopServer(supervisor) EXCEPT !.should_run = FALSE,
                                                    !.pc.main = "done",
                                                    !.pc.monitor = "done"]
    /\ resp' = NoResp
    /\ UNCHANGED supervisorFrame

\* A child process ends by itself
ChildDies(child) ==
    /\ child \in supervisor.running
    /\ supervisor' = [supervisor EXCEPT !.running = @ \ {child}]
    /\ resp' = NoResp
    /\ UNCHANGED supervisorFrame

SessionRowIds == 1..MaxSessions
Outcomes == SessionRowIds \X Students \X {"marked_present", "duplicate"}

Init ==
    /\ now = 0
    /\ attendance_sessions = <<>>
    /\ timers = <<>>
    /\ attendance_records = <<>>
    /\ students = <<"s1", "s2">>
    /\ req = [w \in Workers |-> IdleReq]
    /\ log = [o \in Outcomes |-> 0]
    /\ calls = 0
    /\ faulted = FALSE
    /\ reply = NoReply
    /\ attendance_cache = [cached_embeddings |-> <<>>, last_update |-> <<>>]
    /\ embedding_cache = [student_embeddings |-> None, last_update |-> 0]
    /\ lock = 0
    /\ callers = [t \in Workers |-> IdleCaller]
    /\ session_docs = <<>>
    /\ model_manager = NoManager
    /\ supervisor = NewServerManager
    /\ resp = NoResp

SessionIds == {attendance_sessions[i].session_id : i \in DOMAIN attendance_sessions}

\* The images submitted to /real-mark, as the faces detected in them: no
\* face, one registered student, a stranger, a face at the threshold, a face
\* whose embedding fails, two students, one student twice
Images == {<<>>, <<"f1">>, <<"f2">>, <<"ffar">>, <<"fedge">>, <<"fnone">>,
           <<"f1", "f2">>, <<"f1", "f1">>}

\* How a request enters: the models are ready or not, the first call to the
\* store works or fails
Entries == {<<TRUE, FALSE>>, <<FALSE, FALSE>>, <<TRUE, TRUE>>}

\* The session life cycle
Next ==
    \/ \E scope \in Scopes, d \in Durations, same \in BOOLEAN, fault \in CreateFaults :
          /\ Len(attendance_sessions) < MaxSessions
          /\ create_session(scope, d, same, fault)
    \/ \E k \in DOMAIN timers, fails \in BOOLEAN : auto_close_session(k, fails)
    \/ \E sid \in SessionIds \cup {UnknownSession}, fails \in BOOLEAN : end_session(sid, fails)
    \/ \E sid \in SessionIds \cup {UnknownSession}, fails \in BOOLEAN :
          get_session_status(sid, fails)
    \/ now < 5 * MaxTicks /\ Tick

Spec == Init /\ [][Next]_vars

\* The session life cycle with its scheduling: time passes, and a Timer that
\* is due runs its callback (threading.Timer runs it on its own thread)
TimerRuns(k) == \E fails \in BOOLEAN : k \in DOMAIN timers /\ auto_close_session(k, fails)

SpecFair ==
    /\ Init
    /\ [][Next]_vars
    /\ WF_vars(now < 5 * MaxTicks /\ Tick)
    /\ \A k \in SessionRowIds : WF_vars(TimerRuns(k))

\* Two sessions side by side, over a short time, with a store that works
PairDurations == {5, 20}

PairNext ==
    \/ \E scope \in Scopes, d \in PairDurations, same \in BOOLEAN :
          /\ Len(attendance_sessions) < MaxPairSessions
          /\ create_session(scope, d, same, "none")
    \/ \E k \in DOMAIN timers : auto_close_session(k, FALSE)
    \/ \E sid \in SessionIds : end_session(sid, FALSE)
    \/ \E sid \in SessionIds : get_session_status(sid, FALSE)
    \/ now < 5 * MaxPairTicks /\ Tick

SpecPair == Init /\ [][PairNext]_vars

\* Concurrent recognition requests against one session
MarkDurations == {20}

NoneInFlight == \A w \in Workers : req[w].pc = "idle"

MarkNext ==
    \/ \E scope \in Scopes, d \in MarkDurations :
          /\ attendance_sessions = <<>>
          /\ create_session(scope, d, FALSE, "none")
    \/ \E sid \in SessionIds : end_session(sid, FALSE)
    \/ \E w \in Workers, sid \in SessionIds \cup {UnknownSession}, faces \in Images,
          e \in Entries :
          /\ calls < MaxCalls
          /\ MarkStart(w, sid, faces, e[1], e[2])
    \/ \E w \in Workers, fails \in BOOLEAN : MarkReadMarked(w, fails)
    \/ \E w \in Workers, fails \in BOOLEAN : MarkReadStudents(w, fails)
    \/ \E w \in Workers, fails \in BOOLEAN : MarkFinalCheck(w, fails)
    \/ \E w \in Workers, fault \in InsertFaults : MarkInsert(w, fault)

SpecMark == Init /\ [][MarkNext]_vars

\* The caches over a table of students that grows
MaxCacheTicks == 3
Queries == {"f1", "fedge", "ffar", "ftie"}

InitCache ==
    /\ now = 0
    /\ attendance_sessions = <<>>
    /\ timers = <<>>
    /\ attendance_records = <<>>
    /\ students = <<>>
    /\ req = [w \in Workers |-> IdleReq]
    /\ log = [o \in Outcomes |-> 0]
    /\ calls = 0
    /\ faulted = FALSE
    /\ reply = NoReply
    /\ attendance_cache = [cached_embeddings |-> <<>>, last_update |-> <<>>]
    /\ embedding_cache = [student_embeddings |-> None, last_update |-> 0]
    /\ lock = 0
    /\ callers = [t \in Workers |-> IdleCaller]
    /\ session_docs = <<>>
    /\ model_manager = NoManager
    /\ supervisor = NewServerManager
    /\ resp = NoResp

CacheNext ==
    \/ \E filter \in Filters, fails \in BOOLEAN : get_session_embeddings(filter, fails)
    \/ \E q \in Queries, doc \in SessionDocs, fails \in BOOLEAN :
          find_best_match_optimized_attendance(q, doc, fails)
    \/ \E fails \in BOOLEAN : get_embeddings(fails)
    \/ \E q \in Queries, fails \in BOOLEAN : find_best_match_optimized(q, fails)
    \/ \E student \in Students : register_student(student)
    \/ now < 5 * MaxCacheTicks /\ Tick

SpecCache == InitCache /\ [][CacheNext]_vars

\* The same requests, one at a time: a request starts only when none is in flight
SeqNext ==
    \/ \E scope \in Scopes, d \in MarkDurations :
          /\ attendance_sessions = <<>>
          /\ create_session(scope, d, FALSE, "none")
    \/ \E sid \in SessionIds : end_session(sid, FALSE)
    \/ \E w \in Workers, sid \in SessionIds \cup {UnknownSession}, faces \in Images,
          e \in Entries :
          /\ calls < MaxSeqCalls
          /\ NoneInFlight
          /\ MarkStart(w, sid, faces, e[1], e[2])
    \/ \E w \in Workers, fails \in BOOLEAN : MarkReadMarked(w, fails)
    \/ \E w \in Workers, fails \in BOOLEAN : MarkReadStudents(w, fails)
    \/ \E w \in Workers, fails \in BOOLEAN : MarkFinalCheck(w, fails)
    \/ \E w \in Workers, fault \in InsertFaults : MarkInsert(w, fault)
    \/ now < 5 * MaxSeqTicks /\ Tick

SpecSeq == Init /\ [][SeqNext]_vars

\* Every operation of the engine on one session: requests that overlap, the
\* timer, the status poll and the manual end, while time passes
MaxEngineCalls == 2
MaxEngineTicks == 2
EngineDurations == {5}
EngineImages == {<<"f1">>, <<"f2">>, <<"fdim">>}

EngineNext ==
    \/ \E scope \in Scopes, d \in EngineDurations :
          /\ attendance_sessions = <<>>
          /\ create_session(scope, d, FALSE, "none")
    \/ \E k \in DOMAIN timers, fails \in BOOLEAN : auto_close_session(k, fails)
    \/ \E sid \in SessionIds : end_session(sid, FALSE)
    \/ \E sid \in SessionIds : get_session_status(sid, FALSE)
    \/ \E w \in Workers, sid \in SessionIds, faces \in EngineImages :
          /\ calls < MaxEngineCalls
          /\ MarkStart(w, sid, faces, TRUE, FALSE)
    \/ \E w \in Workers : MarkReadMarked(w, FALSE)
    \/ \E w \in Workers : MarkReadStudents(w, FALSE)
    \/ \E w \in Workers : MarkFinalCheck(w, FALSE)
    \/ \E w \in Workers, fault \in InsertFaults : MarkInsert(w, fault)
    \/ now < 5 * MaxEngineTicks /\ Tick

SpecEngine == Init /\ [][EngineNext]_vars

\* Students that register before and after the session is created, and
\* requests against it, one at a time, with a store that works
RosterImages == {<<"f1">>, <<"f2">>}

RosterNext ==
    \/ \E student \in Students : register_student(student)
    \/ \E scope \in Scopes, d \in MarkDurations :
          /\ attendance_sessions = <<>>
          /\ create_session(scope, d, FALSE, "none")
    \/ \E w \in Workers, sid \in SessionIds, faces \in RosterImages :
          /\ calls < MaxRosterCalls
          /\ NoneInFlight
          /\ MarkStart(w, sid, faces, TRUE, FALSE)
    \/ \E w \in Workers : MarkReadMarked(w, FALSE)
    \/ \E w \in Workers : MarkReadStudents(w, FALSE)
    \/ \E w \in Workers : MarkFinalCheck(w, FALSE)
    \/ \E w \in Workers : MarkInsert(w, "none")

SpecRoster == InitCache /\ [][RosterNext]_vars

\* Constructor calls of ModelManager that overlap
ManagerNext ==
    \/ \E t \in Workers : NewEnter(t)
    \/ \E t \in Workers : NewAcquire(t)
    \/ \E t \in Workers : NewCheck(t)
    \/ \E t \in Workers : NewCreate(t)
    \/ \E t \in Workers, fails \in BOOLEAN : NewInitialize(t, fails)
    \/ \E t \in Workers : NewReturn(t)

SpecManager == Init /\ [][ManagerNext]_vars

\* The server manager, its two threads and the children that end
SupervisorNext ==
    \/ \E fails \in BOOLEAN : run_with_monitoring(fails)
    \/ MainLoop
    \/ MainPoll
    \/ MainFinally
    \/ MonitorLoop
    \/ \E th \in SupervisorThreads : RestartCheck(th)
    \/ \E th \in SupervisorThreads : RestartLoad(th)
    \/ \E th \in SupervisorThreads : RestartStore(th)
    \/ \E th \in SupervisorThreads : RestartStop(th)
    \/ \E th \in SupervisorThreads, fails \in BOOLEAN : RestartStart(th, fails)
    \/ signal_handler
    \/ \E child \in supervisor.running : ChildDies(child)

SpecSupervisor == Init /\ [][SupervisorNext]_vars

\* Overlapping calls of the demo cache, while time passes

ThreadNext ==
    \/ \E t \in Workers : GetEnter(t)
    \/ \E t \in Workers : GetAcquire(t)
    \/ \E t \in Workers, fails \in BOOLEAN : GetFetch(t, fails)
    \/ \E t \in Workers : GetAppend(t)
    \/ \E t \in Workers : GetStamp(t)
    \/ \E t \in Workers : GetReturn(t)
    \/ \E student \in Students : register_student(student)
    \/ now < 5 * MaxGetTicks /\ Tick

SpecThreads == InitCache /\ [][ThreadNext]_vars

(***************************************************************************)
(* Properties                                                              *)
(***************************************************************************)
PresentRecords(session, student) ==
    {i \in DOMAIN attendance_records :
        /\ attendance_records[i].session_id = session
        /\ attendance_records[i].student_enrollment = student
        /\ attendance_records[i].status = "present"}

Marked(session, student) == log[<<session, student, "marked_present">>]
Duplicates(session, student) == log[<<session, student, "duplicate">>]

\* The record worker w is about to insert is for (session, student)
Inserting(w, session, student) ==
    /\ req[w].pc = "insert"
    /\ req[w].session = session
    /\ BestMatch(req[w].faces[req[w].idx], req[w].students).best = student

\* C1: in every reachable state, whatever the interleaving of the concurrent
\* /real-mark requests, the store holds at most one record with status
\* present for a (session, identity) pair.
C1_AtMostOnePresent ==
    \A session \in SessionRowIds, student \in Students :
        Cardinality(PresentRecords(session, student)) <= 1

\* C1 witness: a request has passed both checks and stands before its
\* insert while another request has already stored the record
C1_LostRace ==
    \E w \in Workers, session \in SessionRowIds, student \in Students :
        /\ Inserting(w, session, student)
        /\ PresentRecords(session, student) # {}

C3_NoFaultCounts ==
    ~faulted =>
        \A session \in SessionRowIds, student \in Students :
            Marked(session, student) + Duplicates(session, student) >= 1 =>
                /\ Marked(session, student) = 1
                /\ Cardinality(PresentRecords(session, student)) = 1

\* No step changes the records of a (session, I) that already has one
C3_StoreUntouched ==
    \A session \in SessionRowIds, student \in Students :
        PresentRecords(session, student) # {} =>
            /\ PresentRecords(session, student)' = PresentRecords(session, student)
            /\ \A i \in PresentRecords(session, student) :
                  attendance_records'[i] = attendance_records[i]

InsertResult(w) ==
    IF req'[w].pc = "idle"
    THEN resp'.results[req[w].idx]
    ELSE req'[w].results[req[w].idx]

\* C4: when the insert is refused by the uniqueness constraint, the outcome
\* for that identity is duplicate, never error, and the step leaves the
\* store unchanged.
C4_ConflictIsDuplicate ==
    [][\A w \in Workers :
          (/\ req[w].pc = "insert"
           /\ req'[w] # req[w]
           /\ reply'.kind = "conflict")
          => /\ InsertResult(w).status = "duplicate"
             /\ attendance_records' = attendance_records]_vars

\* C4 witness: a request has just returned a duplicate that came from the
\* constraint
C4_ConstraintHit ==
    /\ reply.call = "insert" /\ reply.kind = "conflict"
    /\ resp.op = "mark"
    /\ \E i \in DOMAIN resp.results : resp.results[i].flag = "constraint_violation"

\* Session row k was ended by end_session before its scheduled end: only
\* end_session writes end_time, and it writes the time of the call
ManuallyEndedEarly(k) ==
    /\ attendance_sessions[k].status = "ended"
    /\ attendance_sessions[k].end_time < timers[k].due

\* C5: after end_session has ended a session before its deadline, the
\* auto-close action scheduled at creation never runs.
C5_AutoCloseCancelled ==
    [][\A k \in DOMAIN timers :
          (ManuallyEndedEarly(k) /\ ~timers[k].fired) => ~timers'[k].fired]_vars

\* C6: a session created at 0 for 20 minutes and ended by end_session at 5
\* is ended from then on, and at 25 the auto-close action has not run.
C6_EndedAndNotRefired ==
    \A k \in DOMAIN timers :
        (/\ attendance_sessions[k].start_time = 0
         /\ timers[k].due = 20
         /\ attendance_sessions[k].end_time = 5)
        => /\ attendance_sessions[k].status = "ended"
           /\ (now >= 25 => ~timers[k].fired)

\* Every row of the session is already ended
AlreadyEnded(sid) ==
    /\ SelectSessions(sid) # <<>>
    /\ \A i \in DOMAIN attendance_sessions :
          attendance_sessions[i].session_id = sid => attendance_sessions[i].status # "active"

\* C7: end_session on a session that is already ended returns success and
\* leaves every stored field of the session unchanged.
C7_EndSessionIdempotent ==
    [][(resp'.op = "end" /\ resp'.code # 500 /\ AlreadyEnded(resp'.arg))
          => (resp'.code = 200 /\ attendance_sessions' = attendance_sessions)]_vars

\* C8: the status of a session only moves forward: an ended or finalized
\* session is never active again, a finalized one stays finalized, and
\* finalized is never entered from active.
C8_StatusForward ==
    [][\A i \in DOMAIN attendance_sessions :
          LET old == attendance_sessions[i].status
              new == attendance_sessions'[i].status
          IN  /\ old = "ended" => new \in {"ended", "finalized"}
              /\ old = "finalized" => new = "finalized"
              /\ old = "active" => new \in {"active", "ended"}]_vars

\* C8 witness: end_session has just been applied to a session the timer had
\* already closed
C8_EndAfterAutoClose ==
    \E k \in DOMAIN timers :
        /\ timers[k].fired
        /\ attendance_sessions[k].status = "ended"
        /\ attendance_sessions[k].ended_at # None
        /\ attendance_sessions[k].end_time > timers[k].due
        /\ resp.op = "end" /\ resp.code = 200

\* No closing path is pending for row k
Settled(k) == attendance_sessions[k].status = "ended" /\ timers[k].fired

\* The fields of row k that carry a time stamped by a closing path
EndTimeFields(k) ==
    {f \in {"end_time", "ended_at"} :
        \/ f = "end_time" /\ attendance_sessions[k].end_time # timers[k].due
        \/ f = "ended_at" /\ attendance_sessions[k].ended_at # None}

\* C9: whichever closing paths ran on a session, and in whichever order, it
\* ends in the same stored state: the same status and the same end-time
\* fields set.
C9_SameTerminalState ==
    \A i, j \in DOMAIN timers :
        (Settled(i) /\ Settled(j)) =>
            /\ attendance_sessions[i].status = attendance_sessions[j].status
            /\ EndTimeFields(i) = EndTimeFields(j)

\* C10: create_session with a duration outside 5..120 answers 400, stores
\* no session and starts no timer; with a duration inside it is not
\* answered 400.
C10_DurationValidated ==
    [][resp'.op = "create" =>
          IF resp'.arg \in 5..120
          THEN resp'.code # 400
          ELSE /\ resp'.code = 400
               /\ attendance_sessions' = attendance_sessions
               /\ timers' = timers]_vars

\* C10 witness: a duration of 121 minutes has just been rejected
C10_Rejected121 ==
    resp.op = "create" /\ resp.arg = 121 /\ resp.code = 400

\* C11: a successful create_session stores one new session that is active
\* and whose scheduled end is its creation time plus the duration, and
\* starts exactly one timer, due at that end time.
C11_CreateSchedules ==
    [][(resp'.op = "create" /\ resp'.code = 200) =>
          LET n == Len(attendance_sessions) + 1 IN
          /\ Len(attendance_sessions') = n
          /\ SubSeq(attendance_sessions', 1, n - 1) = attendance_sessions
          /\ attendance_sessions'[n].status = "active"
          /\ attendance_sessions'[n].start_time = now
          /\ attendance_sessions'[n].end_time = now + resp'.arg
          /\ Len(timers') = Len(timers) + 1
          /\ SubSeq(timers', 1, n - 1) = timers
          /\ timers'[n].session_id = attendance_sessions'[n].session_id
          /\ timers'[n].due = attendance_sessions'[n].end_time
          /\ ~timers'[n].fired]_vars

\* C11 witness: a session of 120 minutes has just been created
C11_Created120 ==
    /\ resp.op = "create" /\ resp.code = 200 /\ resp.arg = 120
    /\ attendance_sessions # <<>>

\* C12: get_session_status on a session_id no row carries answers 404 and
\* changes nothing that is stored.
C12_UnknownIsNotFound ==
    [][(/\ resp'.op = "status"
        /\ resp'.code # 500
        /\ \A i \in DOMAIN attendance_sessions :
              attendance_sessions[i].session_id # resp'.arg)
          => /\ resp'.code = 404
             /\ UNCHANGED <<attendance_sessions, timers, attendance_records, students>>]_vars

\* C12 witness: an unknown session_id was asked for while a session exists
C12_NotFoundBesideSession ==
    /\ resp.op = "status" /\ resp.code = 404
    /\ attendance_sessions # <<>>

\* The first row carrying session_id sid (result.data[0])
FirstRow(sid) ==
    CHOOSE i \in DOMAIN attendance_sessions :
        /\ attendance_sessions[i].session_id = sid
        /\ \A j \in 1..(i - 1) : attendance_sessions[j].session_id # sid

\* C13: get_session_status on an active session whose scheduled end has
\* been reached stores the status ended and reports ended; on an active
\* session whose end has not been reached it leaves the stored sessions
\* unchanged and reports active.
C13_LazyTransition ==
    [][(/\ resp'.op = "status"
        /\ resp'.code = 200
        /\ attendance_sessions[FirstRow(resp'.arg)].status = "active")
          => LET k == FirstRow(resp'.arg) IN
             IF now >= attendance_sessions[k].end_time
             THEN /\ attendance_sessions'[k].status = "ended"
                  /\ resp'.status = "ended"
             ELSE /\ attendance_sessions' = attendance_sessions
                  /\ resp'.status = "active"]_vars

\* C13 witness: get_session_status has just ended a session at the very
\* minute of its scheduled end, before the timer ran
C13_EndedAtDeadline ==
    \E k \in DOMAIN timers :
        /\ resp.op = "status" /\ resp.status = "ended"
        /\ resp.arg = attendance_sessions[k].session_id
        /\ attendance_sessions[k].status = "ended"
        /\ attendance_sessions[k].ended_at = None
        /\ attendance_sessions[k].end_time = now
        /\ timers[k].due = now
        /\ ~timers[k].fired

\* C14: a /real-mark request that carries a face and arrives when no stored
\* session is active is answered with an error and stores no record.
C14_InactiveRefused ==
    [][(/\ calls' = calls + 1
        /\ attendance_sessions # <<>>
        /\ \A i \in DOMAIN attendance_sessions : attendance_sessions[i].status # "active"
        /\ ~(resp'.op = "mark" /\ resp'.code = 200 /\ resp'.results = <<>>))
          => /\ resp'.op = "mark"
             /\ resp'.code \in {400, 404, 500, 503}
             /\ attendance_records' = attendance_records]_vars

\* C14 witness: a request against the ended session has just been refused
C14_Refused ==
    /\ resp.op = "mark" /\ resp.code = 400
    /\ \E i \in DOMAIN attendance_sessions : attendance_sessions[i].status = "ended"

\* C15: every identity recorded in a session belongs to the class of the
\* session: for each of department, year and division that the session
\* sets, the student's attribute equals the session's.
C15_RecordedInScope ==
    \A i \in DOMAIN attendance_records, k \in DOMAIN attendance_sessions :
        attendance_sessions[k].id = attendance_records[i].session_id =>
            \A a \in {"department", "year", "division"} :
                attendance_sessions[k][a] # "" =>
                    StudentScope(attendance_records[i].student_enrollment)[a]
                        = attendance_sessions[k][a]

\* The results worker w has produced after its step
ResultsAfter(w) == IF req'[w].pc = "idle" THEN resp'.results ELSE req'[w].results

\* The worker's step ended in the handler's outer except (answer 500)
Failed500 == resp'.op = "mark" /\ resp'.code = 500

\* The smallest distance from the face to a student of the table
MinDistance(face) ==
    CHOOSE d \in {Dist(face, students[i]) : i \in DOMAIN students} :
        \A i \in DOMAIN students : d <= Dist(face, students[i])

\* C16: a face whose distance to every student is at or above the
\* threshold is answered no_match with the smallest distance found, and the
\* step stores no record.
C16_NoMatchNoRecord ==
    [][\A w \in Workers :
          (/\ req[w].pc = "read_students"
           /\ req'[w] # req[w]
           /\ ~Failed500
           /\ ~EmbeddingFails(req[w].faces[1])
           /\ \A i \in DOMAIN students : Dist(req[w].faces[1], students[i]) >= Threshold)
          => /\ Len(ResultsAfter(w)) >= 1
             /\ ResultsAfter(w)[1].status = "no_match"
             /\ ResultsAfter(w)[1].match = NoStudent
             /\ ResultsAfter(w)[1].distance = Some(MinDistance(req[w].faces[1]))
             /\ attendance_records' = attendance_records]_vars

\* C16 witness: a face exactly at the threshold has just been answered
\* no_match
C16_NoMatchAtThreshold ==
    /\ resp.op = "mark" /\ resp.code = 200
    /\ Len(resp.results) = 1
    /\ resp.results[1].status = "no_match"
    /\ resp.results[1].distance = Some(Threshold)

AttendanceCacheOps == {"get_session_embeddings", "find_best_match_optimized_attendance"}
DemoCacheOps == {"get_embeddings", "find_best_match_optimized"}
MatcherOps == {"find_best_match_optimized_attendance", "find_best_match_optimized"}

\* The smallest distance from the query to an entry of the list
MinOver(query, entry) ==
    IF entry = <<>> THEN Inf
    ELSE CHOOSE d \in {Dist(query, entry[i]) : i \in DOMAIN entry} :
             \A i \in DOMAIN entry : d <= Dist(query, entry[i])

\* C17: the cached matchers return a match only when the smallest distance
\* is strictly below the threshold; at the threshold exactly and above it
\* the match is none; the smallest distance is returned either way.
C17_StrictThreshold ==
    [][(resp'.op \in MatcherOps /\ resp'.outcome = "data") =>
          LET d == MinOver(resp'.query, resp'.entry) IN
          /\ resp'.min_distance = d
          /\ d < 600 => /\ resp'.best_match # NoStudent
                        /\ Dist(resp'.query, resp'.best_match) = d
          /\ d >= 600 => resp'.best_match = NoStudent]_vars

\* C17 witness: a query exactly at the threshold from the nearest cached
\* student has just been answered with no match
C17_AtThresholdNoMatch ==
    /\ resp.op \in MatcherOps
    /\ resp.outcome = "data"
    /\ resp.entry # <<>>
    /\ resp.min_distance = 600
    /\ resp.best_match = NoStudent

\* C18: a cache call that returns an entry without having fetched from the
\* store returns the cached entry, and that entry is no older than the time
\* to live of its cache (600 s for the attendance cache, 300 s for the demo
\* cache).
C18_FreshOrFetched ==
    [][(resp'.op \in AttendanceCacheOps \cup DemoCacheOps
        /\ resp'.outcome = "data" /\ resp'.fetch = "none") =>
          IF resp'.op \in AttendanceCacheOps
          THEN /\ resp'.key \in DOMAIN attendance_cache.cached_embeddings
               /\ resp'.entry = attendance_cache.cached_embeddings[resp'.key]
               /\ TimeTime - attendance_cache.last_update[resp'.key] <= 600
          ELSE /\ embedding_cache.student_embeddings # None
               /\ resp'.entry = embedding_cache.student_embeddings[1]
               /\ TimeTime - embedding_cache.last_update <= 300]_vars

\* C18 witness: an entry of the attendance cache that is exactly 600 s old
\* has been served without a fetch, although the table has grown since
C18_ServedAtTtl ==
    /\ resp.op = "get_session_embeddings"
    /\ resp.fetch = "none"
    /\ TimeTime - attendance_cache.last_update[resp.key] = 600
    /\ resp.entry # FindStudents(resp.key)

\* C19: when a cache call attempts a refresh and the fetch raises while an
\* earlier entry is cached, the call returns that entry and leaves the
\* entry and its time stamp as they were.
C19_LastGoodOnFailure ==
    [][(resp'.op \in AttendanceCacheOps \cup DemoCacheOps /\ resp'.fetch = "raise") =>
          IF resp'.op \in AttendanceCacheOps
          THEN resp'.key \in DOMAIN attendance_cache.cached_embeddings =>
                  /\ resp'.outcome = "data"
                  /\ resp'.entry = attendance_cache.cached_embeddings[resp'.key]
                  /\ attendance_cache' = attendance_cache
          ELSE embedding_cache.student_embeddings # None =>
                  /\ resp'.outcome = "data"
                  /\ resp'.entry = embedding_cache.student_embeddings[1]
                  /\ embedding_cache' = embedding_cache]_vars

\* The student the face resolves to: the nearest one, below the threshold
Resolves(face, student) ==
    /\ \E i \in DOMAIN students : students[i] = student
    /\ Dist(face, student) < Threshold
    /\ \A i \in DOMAIN students : Dist(face, student) <= Dist(face, students[i])

\* C20: when the student the face resolves to had a record in the session
\* at the time the request read the session's records, the face is
\* answered duplicate with the marked_at of that record, and the request
\* neither re-checks nor inserts for it.
C20_FastPathNoInsert ==
    [][\A w \in Workers, student \in Students :
          (/\ req[w].pc = "read_students"
           /\ req'[w] # req[w]
           /\ ~Failed500
           /\ Resolves(req[w].faces[1], student)
           /\ \E e \in req[w].already : e.student = student)
          => /\ Len(ResultsAfter(w)) >= 1
             /\ ResultsAfter(w)[1].status = "duplicate"
             /\ ResultsAfter(w)[1].match = student
             /\ \E i \in DOMAIN attendance_records :
                   /\ attendance_records[i].session_id = req[w].session
                   /\ attendance_records[i].student_enrollment = student
                   /\ ResultsAfter(w)[1].marked_at = Some(attendance_records[i].marked_at)
             /\ attendance_records' = attendance_records
             /\ ~(req'[w].pc \in {"final_check", "insert"} /\ req'[w].idx = 1)]_vars

\* C20 witness: five minutes after the student was marked, a second request
\* has been answered duplicate with the time of the first mark
C20_DuplicateWithOldTime ==
    /\ now = 5
    /\ resp.op = "mark" /\ resp.code = 200
    /\ Len(resp.results) >= 1
    /\ resp.results[1].flag = "duplicate_detection"
    /\ resp.results[1].marked_at = Some(0)

\* C21: when the insert raises an error that is not a uniqueness conflict,
\* or returns no data, the face is answered error, the step stores no
\* record, the handler moves on to the next face without repeating the
\* insert, and the student is not taken as present by the rest of the
\* request: a later face of the same student is not answered from the
\* records read at the start.
C21_FailedInsertIsError ==
    [][\A w \in Workers :
          (/\ req[w].pc = "insert"
           /\ req'[w] # req[w]
           /\ reply'.kind \in {"error", "empty"})
          => LET student == BestMatch(req[w].faces[req[w].idx], req[w].students).best IN
             /\ req'[w].pc = "idle" \/ req'[w].idx > req[w].idx
             /\ InsertResult(w).status = "error"
             /\ InsertResult(w).match = student
             /\ attendance_records' = attendance_records
             /\ req'[w].pc # "idle" => req'[w].already = req[w].already
             /\ \A i \in DOMAIN ResultsAfter(w) :
                   i > req[w].idx =>
                       ~(/\ ResultsAfter(w)[i].match = student
                         /\ ResultsAfter(w)[i].flag = "duplicate_detection")]_vars

\* C21 witness: the insert for the first face of an image that shows the
\* same student twice has failed; the request goes on to the second look at
\* the store for the second face, and the student has no record
C21_FailedThenNextFace ==
    \E w \in Workers :
        /\ reply.call = "insert" /\ reply.kind \in {"error", "empty"}
        /\ req[w].pc = "final_check" /\ req[w].idx = 2
        /\ req[w].results[1].status = "error"
        /\ req[w].faces[1] = req[w].faces[2]
        /\ SelectRecord(req[w].session, req[w].results[1].match) = <<>>

\* C22: no step of the engine (a /real-mark request, end_session, the
\* timer, get_session_status, create_session) changes or removes a stored
\* attendance record: the table after a step is the table before it, with
\* at most one record added at its end.
C22_RecordsImmutable ==
    [][/\ Len(attendance_records') \in {Len(attendance_records), Len(attendance_records) + 1}
       /\ SubSeq(attendance_records', 1, Len(attendance_records)) = attendance_records]_vars

\* C22 witness: five minutes after a student was marked, the session was
\* ended by hand, closed by the timer and polled, a second insert for the
\* student was refused, and the record is as it was stored
C22_RecordSurvives ==
    \E k \in DOMAIN timers :
        /\ timers[k].fired
        /\ attendance_sessions[k].status = "ended"
        /\ attendance_sessions[k].end_time = 5
        /\ reply.call = "insert" /\ reply.kind = "conflict"
        /\ now = 5
        /\ Len(attendance_records) = 1
        /\ attendance_records[1].marked_at = 0

\* The sessions (rows of attendance_sessions) whose stored row or whose
\* attendance records the step changes
SessionsTouched ==
    {k \in DOMAIN attendance_sessions :
        \/ attendance_sessions'[k] # attendance_sessions[k]
        \/ SelectRecords(attendance_sessions[k].id)' # SelectRecords(attendance_sessions[k].id)}

\* C23: sessions are independent: a step of end_session, of the timer, of
\* get_session_status or of /real-mark changes the status, the end time or
\* the records of at most one session, also when two sessions were created
\* within the same second.
C23_SessionsIndependent ==
    [][Cardinality(SessionsTouched) <= 1]_vars

\* The duration of session row k has elapsed
Elapsed(k) == k \in DOMAIN attendance_sessions /\ now >= timers[k].due

\* Session row k has the stored status ended
StoredEnded(k) == k \in DOMAIN attendance_sessions /\ attendance_sessions[k].status = "ended"

\* C24: a session whose duration has elapsed eventually has the stored
\* status ended (by end_session, by the timer or by a poll), given that a
\* timer that is due does run, and also when the update the timer issues
\* fails.
C24_EventuallyEnded ==
    \A k \in SessionRowIds : [](Elapsed(k) => <>StoredEnded(k))

\* A refresh is building the list the attribute refers to
Building == \E u \in Workers : callers[u].pc = "build" /\ callers[u].pending # <<>>

\* C25: a list that get_embeddings has returned is complete and stays as it
\* was: while a caller holds the list the cache refers to, no refresh is
\* still building that list, and the list is as it was when it was
\* returned.
C25_NoTornList ==
    \A t \in Workers :
        (callers[t].ret.held /\ callers[t].ret.alias) =>
            /\ ~Building
            /\ callers[t].ret.seen = embedding_cache.student_embeddings[1]

\* Thread t stands at "with self.lock" while another thread holds the lock
\* and is fetching from the store
BlockedByFetch(t) ==
    /\ callers[t].pc = "lock"
    /\ lock \in Workers \ {t}
    /\ callers[lock].pc = "fetch"

\* The cached entry is within its time to live for the call of thread t
FreshFor(t) ==
    /\ embedding_cache.student_embeddings # None
    /\ callers[t].current_time - embedding_cache.last_update <= 300

\* C26: the lock covers the refresh only: a call of get_embeddings for
\* which the cached entry is within its time to live never stands at the
\* lock while another thread holds it and is fetching from the store.
C26_FreshReadNeverWaits ==
    \A t \in Workers : ~(BlockedByFetch(t) /\ FreshFor(t))

\* C27: a cache call whose fetch the store answered (with any number of
\* students, none included) leaves the entry stamped with the time of the
\* call, and a cache call queries the store only when there is no entry or
\* the stamp is older than the time to live.
C27_StampedAfterRefresh ==
    [][(resp'.op \in AttendanceCacheOps \cup DemoCacheOps) =>
          IF resp'.op \in AttendanceCacheOps
          THEN /\ resp'.fetch = "ok" =>
                     /\ attendance_cache'.cached_embeddings[resp'.key] = resp'.entry
                     /\ attendance_cache'.last_update[resp'.key] = TimeTime
               /\ resp'.fetch # "none" =>
                     \/ resp'.key \notin DOMAIN attendance_cache.cached_embeddings
                     \/ TimeTime - attendance_cache.last_update[resp'.key] > 600
          ELSE /\ resp'.fetch = "ok" =>
                     /\ embedding_cache'.student_embeddings = Some(resp'.entry)
                     /\ embedding_cache'.last_update = TimeTime
               /\ resp'.fetch # "none" =>
                     \/ embedding_cache.student_embeddings = None
                     \/ TimeTime - embedding_cache.last_update > 300]_vars

\* No student of the table is in the scope of the filter
NoneInScope(session_filter) ==
    \A i \in DOMAIN students :
        \E j \in DOMAIN session_filter :
            StudentScope(students[i])[session_filter[j][1]] # session_filter[j][2]

\* C28: when the store answers the fetch and no student is in the scope,
\* the cache call returns an empty list and no error; a matcher that gets
\* an empty list returns no match with an infinite distance, and the step
\* stores no record.
C28_EmptyScopeIsNoMatch ==
    [][(resp'.op \in AttendanceCacheOps \cup DemoCacheOps) =>
          /\ (resp'.fetch = "ok" /\ NoneInScope(resp'.key)) =>
                 /\ resp'.outcome = "data"
                 /\ resp'.entry = <<>>
          /\ (resp'.op \in MatcherOps /\ resp'.outcome = "data" /\ resp'.entry = <<>>) =>
                 /\ resp'.best_match = NoStudent
                 /\ resp'.min_distance = Inf
          /\ attendance_records' = attendance_records]_vars

\* C28 witness: a student is registered, but in another class than the one
\* asked for: the matcher fetched, got an empty list and found no match
C28_OutOfScopeOnly ==
    /\ resp.op = "find_best_match_optimized_attendance"
    /\ students # <<>>
    /\ NoneInScope(resp.key)
    /\ resp.fetch = "ok"
    /\ resp.outcome = "data"
    /\ resp.entry = <<>>
    /\ resp.best_match = NoStudent
    /\ resp.min_distance = Inf

\* The items of a filter, whatever their order
Items(session_filter) == {session_filter[i] : i \in DOMAIN session_filter}

\* C29: one entry per scope: a call of the attendance cache for one filter
\* leaves the list and the stamp of every entry of another key as they were
\* and adds no entry but its own, and filters with the same items, in
\* whatever order, use the same entry: the call's key is the one entry
\* carrying its items.
C29_OneEntryPerScope ==
    [][(resp'.op \in AttendanceCacheOps) =>
          LET before == attendance_cache.cached_embeddings
              after  == attendance_cache'.cached_embeddings
          IN
          /\ \A other \in DOMAIN before :
                 other # resp'.key =>
                     /\ other \in DOMAIN after
                     /\ after[other] = before[other]
                     /\ attendance_cache'.last_update[other]
                           = attendance_cache.last_update[other]
          /\ DOMAIN after \subseteq DOMAIN before \cup {resp'.key}
          /\ Items(resp'.key) = Items(resp'.filter)
          /\ \A k1, k2 \in DOMAIN after : Items(k1) = Items(k2) => k1 = k2]_vars

\* C29 witness: the filter was given year first; the call was served,
\* without a fetch, from the entry a call with department first had
\* installed, while the entry of the empty filter sits beside it
C29_OtherOrderServed ==
    /\ resp.op = "get_session_embeddings"
    /\ resp.filter = <<<<"year", "2">>, <<"department", "CS">>>>
    /\ resp.key # resp.filter
    /\ resp.fetch = "none"
    /\ DOMAIN attendance_cache.cached_embeddings = {resp.key, NoFilter}

\* The first position of the list at the smallest distance from the query
FirstNearest(query, entry) ==
    CHOOSE i \in DOMAIN entry :
        /\ Dist(query, entry[i]) = MinOver(query, entry)
        /\ \A j \in 1..(i - 1) : Dist(query, entry[j]) # MinOver(query, entry)

\* C30: a cached matcher that returns a match returns the student at the
\* smallest distance over the whole list and, when several students are at
\* that distance, the one that comes first in the list; the distance
\* returned is the smallest one.
C30_FirstNearestWins ==
    [][(resp'.op \in MatcherOps /\ resp'.outcome = "data" /\ resp'.entry # <<>>) =>
          /\ resp'.min_distance = MinOver(resp'.query, resp'.entry)
          /\ \A i \in DOMAIN resp'.entry :
                 resp'.min_distance <= Dist(resp'.query, resp'.entry[i])
          /\ resp'.best_match # NoStudent =>
                 resp'.best_match = resp'.entry[FirstNearest(resp'.query, resp'.entry)]]_vars

\* C30 witness: s2 was registered before s1, both are at the same distance
\* from the query, and the matcher returned s2
C30_TieGoesToFirst ==
    /\ resp.op \in MatcherOps
    /\ resp.entry = <<"s2", "s1">>
    /\ Dist(resp.query, "s1") = Dist(resp.query, "s2")
    /\ resp.best_match = "s2"

\* C31: a face whose embedding differs in length from the stored embeddings
\* is answered with a validation error (a 4xx answer, not the 500 of the
\* handler's outer except), and the step stores no record.
C31_MismatchIsValidationError ==
    [][\A w \in Workers :
          (/\ req[w].pc = "read_students"
           /\ req'[w] # req[w]
           /\ \E i \in DOMAIN students : CosineRaises(req[w].faces[1], students[i]))
          => /\ resp'.op = "mark"
             /\ resp'.code \in {400, 422}
             /\ attendance_records' = attendance_records]_vars

\* C32: a /real-mark request that arrives while the models are not ready is
\* answered 503 (not the 500 of a failure), whatever the session asked for,
\* with a face in the image or without, and whether or not the store would
\* answer; the handler returns at once and nothing stored changes.
C32_NotReadyIs503 ==
    [][calls' = calls + 1 =>
          \A w \in Workers, sid \in SessionIds \cup {UnknownSession},
             faces \in {<<>>, <<"f1">>}, fails \in BOOLEAN :
              MarkStart(w, sid, faces, FALSE, fails) =>
                  /\ resp'.op = "mark"
                  /\ resp'.code = 503
                  /\ resp'.results = <<>>
                  /\ req'[w].pc = "idle"
                  /\ faulted' = faulted
                  /\ UNCHANGED <<attendance_sessions, timers, attendance_records, students>>]_vars

\* C32 witness: a request has been answered 503 while the session it asked
\* for is active and another request is under way
C32_RefusedBesideRunning ==
    /\ resp.op = "mark" /\ resp.code = 503
    /\ \E i \in DOMAIN attendance_sessions : attendance_sessions[i].status = "active"
    /\ \E w \in Workers : req[w].pc # "idle"

\* The students the session document of row k listed at creation
RosterOf(k) == {session_docs[k].students[i] : i \in DOMAIN session_docs[k].students}

\* student is registered in the class of session row k and was not in the
\* session document when the session was created
RegisteredLate(k, student) ==
    /\ k \in DOMAIN session_docs
    /\ student \notin RosterOf(k)
    /\ \E i \in DOMAIN Roster(attendance_sessions[k]) :
           Roster(attendance_sessions[k])[i] = student

\* C33: a face that resolves to a student of the session's class who
\* registered after the session was created, and who has no record yet, is
\* matched like any other: the request goes on to the check before the
\* insert, and the insert stores the record and reports marked_present.
C33_RosterDoesNotGate ==
    [][\A w \in Workers, st \in Students :
          /\ (/\ req[w].pc = "read_students"
              /\ req'[w] # req[w]
              /\ RegisteredLate(req[w].session, st)
              /\ Resolves(req[w].faces[1], st)
              /\ ~FastPathHit(req[w].already, st))
             => req'[w].pc = "final_check"
          /\ (/\ Inserting(w, req[w].session, st)
              /\ req'[w] # req[w]
              /\ RegisteredLate(req[w].session, st))
             => /\ Len(attendance_records') = Len(attendance_records) + 1
                /\ attendance_records'[Len(attendance_records')].student_enrollment = st
                /\ resp'.results[1].status = "marked_present"]_vars

\* C33 witness: a student who was not in the session document has a
\* record in the session
C33_LateStudentMarked ==
    \E k \in DOMAIN attendance_sessions, st \in Students :
        RegisteredLate(k, st) /\ PresentRecords(k, st) # {}

\* C39: however the constructor calls of ModelManager overlap, at most one
\* object is created, _initialize_models runs at most once, and every call
\* that returns hands out the one object the class attribute refers to.
C39_OneInstance ==
    /\ model_manager.created <= 1
    /\ model_manager.initialized <= 1
    /\ model_manager.handed \subseteq {1}
    /\ model_manager.handed # {} => model_manager.instance = Some(1)

\* C39 witness: a caller that saw no instance before the lock holds the lock
\* now and finds the instance another caller has made meanwhile
C39_SecondLookFindsIt ==
    \E t \in Workers :
        /\ model_manager.pc[t] = "check"
        /\ model_manager.instance # None
        /\ model_manager.handed # {}

\* C40: the manager has started at most max_restarts children by restart,
\* and at most one child runs at a time.
C40_BoundedSingleChild ==
    /\ supervisor.restarts <= max_restarts
    /\ Cardinality(supervisor.running) <= 1

\* C34: a record is inserted only for a session whose stored status is
\* active at the moment of the insert; once the status is ended, by
\* end_session, by the timer or by get_session_status, the records of the
\* session do not grow.
C34_NoInsertAfterEnd ==
    [][Len(attendance_records') > Len(attendance_records) =>
          attendance_sessions[attendance_records'[Len(attendance_records')].session_id].status
              = "active"]_vars

\* C38: get_session_status never reports a negative remaining_minutes, and
\* it reports 0 whenever the status it reports is not active.
C38_RemainingZeroWhenEnded ==
    [][(resp'.op = "status" /\ resp'.code = 200) =>
          /\ resp'.remaining >= 0
          /\ resp'.status # "active" => resp'.remaining = 0]_vars

\* C35: the end_time a session was created with is never changed by a
\* later operation.
C35_ScheduledEndFixed ==
    [][\A k \in DOMAIN attendance_sessions :
          attendance_sessions'[k].end_time = attendance_sessions[k].end_time]_vars

\* The faces of results answered marked_present for student
MarkedFaces(results, student) ==
    {i \in DOMAIN results :
        results[i].match = student /\ results[i].status = "marked_present"}

\* In results, a face of student that comes after one answered
\* marked_present is answered duplicate
LaterAreDuplicates(results) ==
    \A i, j \in DOMAIN results :
        (/\ i < j
         /\ results[i].status = "marked_present"
         /\ results[j].match = results[i].match)
        => results[j].status = "duplicate"

\* C36: in the results of one /real-mark request, while it runs and when
\* it is answered, at most one face per student is marked_present and every
\* later face of that student is duplicate; the request looks at the store
\* or inserts only for a student none of its earlier faces was marked for.
C36_OneMarkPerRequest ==
    /\ \A st \in Students : Cardinality(MarkedFaces(resp.results, st)) <= 1
    /\ LaterAreDuplicates(resp.results)
    /\ \A w \in Workers :
          /\ \A st \in Students : Cardinality(MarkedFaces(req[w].results, st)) <= 1
          /\ LaterAreDuplicates(req[w].results)
          /\ req[w].pc \in {"final_check", "insert"} =>
                MarkedFaces(req[w].results,
                            BestMatch(req[w].faces[req[w].idx], req[w].students).best) = {}

\* C36 witness: an image with the same student twice was answered
\* marked_present for the first face and duplicate for the second
C36_TwiceInOneImage ==
    /\ resp.op = "mark" /\ resp.code = 200
    /\ Len(resp.results) = 2
    /\ resp.results[1].status = "marked_present"
    /\ resp.results[2].status = "duplicate"
    /\ resp.results[2].match = resp.results[1].match
    /\ resp.results[2].flag = "duplicate_detection"

\* C37: a create_session that is not answered 200 stores no session and
\* starts no timer, and every timer belongs to the stored session of its
\* position.
C37_TimerOnlyForStored ==
    [][/\ (resp'.op = "create" /\ resp'.code # 200) =>
             /\ timers' = timers
             /\ attendance_sessions' = attendance_sessions
       /\ Len(timers') = Len(attendance_sessions')
       /\ \A k \in DOMAIN timers' :
             timers'[k].session_id = attendance_sessions'[k].session_id]_vars

\* C37 witness: a create_session whose insert failed has just been answered
\* 500 while no session is stored
C37_FailedCreate ==
    /\ resp.op = "create" /\ resp.code = 500
    /\ attendance_sessions = <<>>
    /\ timers = <<>>

====
